---------------------------- MODULE Spec2Model ----------------------------
(***************************************************************************)
(* treeball: create / diff / list of directory trees kept as tar.gz        *)
(* archives of zero-byte placeholders.                                     *)
(*                                                                         *)
(* Strings are sequences of one-character strings, compared byte by byte   *)
(* as Go compares strings.  A source is a directory tree (a set of nodes), *)
(* an archive (the sequence of its tar header names) or a missing path.    *)
(***************************************************************************)
EXTENDS Integers, Sequences, FiniteSets, TLC

VARIABLES
    op,         \* the command being run: "create", "diff" or "list"
    pc,         \* position of the running operation
    cancelled,  \* ctx.Err() != nil
    excludes,   \* the exclude patterns handed to the operation
    extSortConfig, \* prog.extSortConfig
    gzipConfig, \* prog.gzipConfig, until the compressor has been set up from it
    cancelAt,   \* when the context was cancelled: before the operation's first
                \* step ("start"), later ("running") or not at all ("none")
    exited,     \* main has called os.Exit
    exitCode,   \* main's exitCode
    tmpFiles,   \* the sorter's temporary files on disk, for each path stream
    call,       \* a function of the program called on its own: name and arguments
    returned,   \* what that call returned
    producer,   \* a producer goroutine: position, headers left, record in hand
    pathsChan,  \* its paths channel
    errsChan,   \* its errs channel
    sorter,     \* the sorter task reading paths: position, records, output left
    sorterErrs, \* the sorter's error channel
    merger,     \* the goroutine of extsortStrings merging the error channels
    mergedErrs, \* its mergedErrs channel
    consumer,   \* the receiver of the sorted output: records got, still receiving
    calls,      \* the calls an operation made on its output and its sources
    defers,     \* the deferred calls of the operation, the last deferred first
    tasks,      \* mktree: the tasks channel and whether it was closed
    errCh,      \* mktree: the error channel
    once,       \* mktree: once.Do has run its function
    worker,     \* mktree: each worker goroutine: position, directory, file, err
    feeder,     \* mktree: the goroutine that submits the directories
    made,       \* mktree: the directories and files created in fs
    input,      \* Create's root directory / List's archive
    cmpOld,     \* Diff's old source
    cmpNew,     \* Diff's new source
    sort,       \* List's sort flag
    outExists,  \* the output path exists in prog.fs
    archive,    \* tar headers written to the output so far
    stdout,     \* lines printed to prog.stdout
    walk,       \* Create: entries WalkDir has still to visit
    origin,     \* List: the tree the listed archive was created from, if any
    paths,      \* List: the path stream
    oldStream,  \* Diff: the old path stream
    newStream,  \* Diff: the new path stream
    result,     \* diff.Result
    ret         \* the operation's return value ("pending" while running)

vars == <<op, pc, cancelled, excludes, extSortConfig, input, cmpOld, cmpNew, sort, outExists,
          archive, stdout, walk, origin, paths, oldStream, newStream, result,
          ret, gzipConfig, cancelAt, exited, exitCode, tmpFiles, call, returned,
          producer, pathsChan, errsChan, sorter, sorterErrs, merger,
          mergedErrs, consumer, calls, defers, tasks, errCh, once, worker,
          feeder, made>>

\* the variables of an operation followed call by call
writerVars == <<calls, defers>>

\* the variables of the benchmark helper mktree
treeVars == <<tasks, errCh, once, worker, feeder, made>>

\* the variables of one path stream followed channel by channel
pipeVars ==
    <<producer, pathsChan, errsChan, sorter, sorterErrs, merger, mergedErrs,
      consumer>>

\* the variables the operations as a whole leave alone: those of a single
\* function called on its own and those of a stream followed step by step
auxVars == <<call, returned, pipeVars, writerVars, treeVars>>

----------------------------------------------------------------------------
(* Bounds *)

\* longest input archive, in entries
MaxEntries == 2
\* largest sorter chunk size (extsort.Config.ChunkSize) tried
MaxChunk == 2

----------------------------------------------------------------------------
(* Strings *)

\* byte value of a character (Go compares strings byte-wise)
Byte(c) ==
    CASE c = " " -> 32 [] c = "*" -> 42 [] c = "+" -> 43 [] c = "-" -> 45
      [] c = "." -> 46 [] c = "/" -> 47 [] c = "?" -> 63 [] c = "[" -> 91
      [] c = "b" -> 98 [] c = "c" -> 99 [] c = "s" -> 115 [] c = "t" -> 116

\* s < t for Go strings
StrLess(s, t) ==
    \E i \in 1..(Len(t)) :
        /\ \A j \in 1..(i - 1) : j <= Len(s) /\ s[j] = t[j]
        /\ \/ i = Len(s) + 1
           \/ i <= Len(s) /\ Byte(s[i]) < Byte(t[i])

StrLeq(s, t) == s = t \/ StrLess(s, t)

\* strings.HasSuffix(s, "/")
HasSuffixSlash(s) == Len(s) > 0 /\ s[Len(s)] = "/"

\* strings.TrimSuffix(s, "/")
TrimSuffixSlash(s) == IF HasSuffixSlash(s) THEN SubSeq(s, 1, Len(s) - 1) ELSE s

\* strings.TrimPrefix(s, "/")
TrimPrefixSlash(s) == IF Len(s) > 0 /\ s[1] = "/" THEN Tail(s) ELSE s

\* filepath.ToSlash: the separator of the modelled (unix) build is '/'
ToSlash(s) == s

\* the slash-separated elements of s, empty ones dropped
RECURSIVE Elements(_)
Elements(s) ==
    IF s = <<>> THEN <<>>
    ELSE IF s[1] = "/" THEN Elements(Tail(s))
    ELSE LET n == CHOOSE k \in 1..Len(s) :
                     /\ \A j \in 1..k : s[j] # "/"
                     /\ (k = Len(s) \/ s[k + 1] = "/")
         IN <<SubSeq(s, 1, n)>> \o Elements(SubSeq(s, n + 1, Len(s)))

RECURSIVE JoinElements(_)
JoinElements(es) ==
    IF es = <<>> THEN <<>>
    ELSE IF Len(es) = 1 THEN es[1]
    ELSE es[1] \o <<"/">> \o JoinElements(Tail(es))

\* filepath.Clean: repeated separators collapse, "." elements and the
\* trailing separator go, the empty path becomes "."  (".." elements do not
\* occur in the modelled names)
Clean(s) ==
    LET es   == Elements(s)
        keep == SelectSeq(es, LAMBDA e : e # <<".">>)
        body == JoinElements(keep)
    IN IF Len(s) > 0 /\ s[1] = "/" THEN <<"/">> \o body
       ELSE IF body = <<>> THEN <<".">>
       ELSE body

\* filepath.Join(a, b)
Join(a, b) == Clean(a \o <<"/">> \o b)

----------------------------------------------------------------------------
(* Exclude patterns (util.go: isExcluded) *)

\* The pattern is well formed.  The only malformed patterns modelled are
\* those with a character class that is never closed, such as "b[".
ValidPattern(p) == \A i \in 1..Len(p) : p[i] # "["

\* doublestar.Match on a well-formed pattern made of literals, '?' and '*'
\* ('*' and '?' never match a separator).  The patterns modelled hold no
\* "**" element, class or brace.
RECURSIVE GlobMatch(_, _)
GlobMatch(p, s) ==
    IF p = <<>> THEN s = <<>>
    ELSE IF p[1] = "*" THEN
        \E k \in 0..Len(s) :
            /\ \A j \in 1..k : s[j] # "/"
            /\ GlobMatch(Tail(p), SubSeq(s, k + 1, Len(s)))
    ELSE IF p[1] = "?" THEN
        s # <<>> /\ s[1] # "/" /\ GlobMatch(Tail(p), Tail(s))
    ELSE s # <<>> /\ s[1] = p[1] /\ GlobMatch(Tail(p), Tail(s))

\* a variant that gives up at a directory-only pattern that matches a file
RECURSIVE isExcludedFrom_stopsAtDirOnly(_, _, _, _)
isExcludedFrom_stopsAtDirOnly(path, isDir, excl, i) ==
    IF i > Len(excl) THEN "false"
    ELSE LET pattern      == ToSlash(excl[i])
             needDirMatch == HasSuffixSlash(pattern)
             trimmed      == TrimPrefixSlash(TrimSuffixSlash(pattern))
         IN IF ~ValidPattern(trimmed) THEN "error"
            ELSE IF GlobMatch(trimmed, path)
                 THEN (IF needDirMatch /\ ~isDir THEN "false" ELSE "true")
            ELSE isExcludedFrom_stopsAtDirOnly(path, isDir, excl, i + 1)

\* the loop of isExcluded from pattern i on; the result is "true", "false"
\* or "error" (doublestar.Match validates the whole pattern)
RECURSIVE isExcludedFrom(_, _, _, _)
isExcludedFrom(path, isDir, excl, i) ==
    IF i > Len(excl) THEN "false"
    ELSE LET pattern      == ToSlash(excl[i])
             needDirMatch == HasSuffixSlash(pattern)
             trimmed      == TrimPrefixSlash(TrimSuffixSlash(pattern))
         IN IF ~ValidPattern(trimmed) THEN "error"
            ELSE IF GlobMatch(trimmed, path) /\ ~(needDirMatch /\ ~isDir)
                 THEN "true"
            ELSE isExcludedFrom(path, isDir, excl, i + 1)

\* a variant that takes a malformed pattern for one that matches nothing
isExcluded_lenient(path, isDir, excl) ==
    LET x == isExcludedFrom(ToSlash(Clean(path)), isDir, excl, 1)
    IN IF x = "error" THEN "false" ELSE x

isExcluded(path, isDir, excl) ==
    isExcludedFrom(ToSlash(Clean(path)), isDir, excl, 1)

----------------------------------------------------------------------------
(* Directory trees and filepath.WalkDir *)

\* the directory handed to Create or Diff
DirPath == <<"/", "s">>

\* A node is a path relative to the root and whether it is a directory.
Node(rel, dir) == [rel |-> rel, dir |-> dir]

\* the root of the walk: WalkDir calls fn on it first (p == path)
RootNode == Node(<<>>, TRUE)

\* the path WalkDir hands to fn for a node
FullPath(n) == IF n.rel = <<>> THEN DirPath ELSE DirPath \o <<"/">> \o n.rel

\* filepath.Rel(DirPath, p): p without the root and its separator
\* a variant that leaves the root on the path
Rel_absolute(p) == p

Rel(p) ==
    IF p = DirPath THEN <<".">>
    ELSE SubSeq(p, Len(DirPath) + 2, Len(p))

ParentRel(rel) ==
    LET es == Elements(rel) IN JoinElements(SubSeq(es, 1, Len(es) - 1))

BaseName(rel) == LET es == Elements(rel) IN es[Len(es)]

\* n lies beneath directory d
Beneath(d, n) ==
    /\ Len(n.rel) > Len(d.rel) + 1
    /\ SubSeq(n.rel, 1, Len(d.rel) + 1) = d.rel \o <<"/">>

\* the nodes of a set ordered by name, as os.ReadDir / afero.Walk sort them
RECURSIVE ByName(_)
ByName(S) ==
    IF S = {} THEN <<>>
    ELSE LET m == CHOOSE x \in S :
                    \A y \in S : StrLeq(BaseName(x.rel), BaseName(y.rel))
         IN <<m>> \o ByName(S \ {m})

RECURSIVE WalkFrom(_, _)
RECURSIVE WalkAll(_, _)
\* pre-order: a node, then (for a directory) its children by name
WalkFrom(tree, n) ==
    <<n>> \o
    (IF n.dir
     THEN WalkAll(tree, ByName({c \in tree : ParentRel(c.rel) = n.rel}))
     ELSE <<>>)
WalkAll(tree, ns) ==
    IF ns = <<>> THEN <<>>
    ELSE WalkFrom(tree, ns[1]) \o WalkAll(tree, Tail(ns))

\* every fn call WalkDir(root) would make if fn always returned nil
WalkDir(tree) == WalkFrom(tree, RootNode)

\* fn returned filepath.SkipDir on directory d: its subtree is not visited
SkipDir(rest, d) == SelectSeq(rest, LAMBDA n : ~Beneath(d, n))

----------------------------------------------------------------------------
(* The external sorter (extsort.Strings) *)

\* the input cut into chunks of at most n records, in arrival order
RECURSIVE Chunks(_, _)
Chunks(in, n) ==
    IF in = <<>> THEN <<>>
    ELSE IF Len(in) <= n THEN <<in>>
    ELSE <<SubSeq(in, 1, n)>> \o Chunks(SubSeq(in, n + 1, Len(in)), n)

\* a variant that keeps the directory records of a run before the others
RECURSIVE InsertSorted_dirsFirst(_, _)
InsertSorted_dirsFirst(run, x) ==
    IF run = <<>> THEN <<x>>
    ELSE IF \/ HasSuffixSlash(x) /\ ~HasSuffixSlash(run[1])
            \/ /\ HasSuffixSlash(x) = HasSuffixSlash(run[1])
               /\ StrLess(x, run[1])
    THEN <<x>> \o run
    ELSE <<run[1]>> \o InsertSorted_dirsFirst(Tail(run), x)

\* a variant that puts x in front of the run whatever the run holds
InsertSorted_front(run, x) == <<x>> \o run

\* x put into the sorted sequence run, after the records equal to it
RECURSIVE InsertSorted(_, _)
InsertSorted(run, x) ==
    IF run = <<>> THEN <<x>>
    ELSE IF StrLess(x, run[1]) THEN <<x>> \o run
    ELSE <<run[1]>> \o InsertSorted(Tail(run), x)

\* a chunk sorted in memory
RECURSIVE SortChunk(_)
SortChunk(chunk) ==
    IF chunk = <<>> THEN <<>>
    ELSE InsertSorted(SortChunk(SubSeq(chunk, 1, Len(chunk) - 1)),
                      chunk[Len(chunk)])

\* k-way merge of sorted runs: the smallest head leaves first, the run with
\* the lowest id winning a tie
RECURSIVE KWayMerge(_)
KWayMerge(runs) ==
    LET live == {i \in DOMAIN runs : runs[i] # <<>>}
    IN IF live = {} THEN <<>>
       ELSE LET m == CHOOSE i \in live :
                       \A j \in live :
                           \/ StrLess(runs[i][1], runs[j][1])
                           \/ runs[i][1] = runs[j][1] /\ i <= j
            IN <<runs[m][1]>> \o
               KWayMerge([runs EXCEPT ![m] = Tail(runs[m])])

\* a variant of the sorter that hands on its input as it came
SorterOut_inputOrder(in, cfg, order) == in

\* The sorter's output for an input that was closed without cancellation:
\* chunks of cfg.chunk records are sorted by the workers and registered as
\* runs in the order `order` (a permutation of the chunk numbers), then
\* merged.
SorterOut(in, cfg, order) ==
    LET chunks == Chunks(in, cfg.chunk)
        runs   == [i \in DOMAIN chunks |-> SortChunk(chunks[order[i]])]
    IN KWayMerge(runs)

\* the orders in which cfg.workers workers can register the runs of `in`
RunOrders(in, cfg) ==
    LET n == Len(Chunks(in, cfg.chunk))
    IN IF cfg.workers = 1 THEN {[i \in 1..n |-> i]} ELSE Permutations(1..n)

\* the temporary files the sorter writes for an input: one for each run
\* when there is more than one run, none for a single run, which is merged
\* from memory
Spilled(in, cfg) ==
    LET n == Len(Chunks(in, cfg.chunk)) IN IF n > 1 THEN n ELSE 0

\* no sorter has a temporary file on disk
NoTempFiles == [paths |-> 0, old |-> 0, new |-> 0]

\* prog.extSortConfig: chunk size and number of workers
SortConfigs == [chunk : 1..MaxChunk, workers : {1, 2}]

\* extSortConfigDefault.ChunkSize
DefaultChunkSize == 100000

\* extSortConfigDefault on a machine with two processors
extSortConfigDefault == [chunk |-> DefaultChunkSize, workers |-> 2]

\* A path stream as its consumer sees it: `in` is what the producer sent,
\* `out` what is still to be received, `err` what the error channel holds.
Stream(in, out, err) == [in |-> in, out |-> out, err |-> err]

NoStream == Stream(<<>>, <<>>, "none")

\* a variant that hands back the producer's channel instead of the sorter's
extsortStrings_passthrough(stream, cfg, order) == stream

\* extsortStrings: the sorter's output in place of the producer's, and the
\* first error of the two error channels (the sorter itself does not fail here)
extsortStrings(stream, cfg, order) ==
    Stream(stream.in, SorterOut(stream.in, cfg, order), stream.err)

----------------------------------------------------------------------------
(* Sources and path streams (util.go) *)

NoSource == [kind |-> "none", tree |-> {}, names |-> <<>>]
Missing == [kind |-> "missing", tree |-> {}, names |-> <<>>]
DirSource(t) == [kind |-> "dir", tree |-> t, names |-> <<>>]
TarSource(ns) == [kind |-> "tar", tree |-> {}, names |-> ns]

\* What the environment does to a producer: nothing, or a walk error handed
\* to the at-th fn call, or a failing open (a failing gzip header takes the
\* same path: an error and no entry), or a tar framing error after the last
\* good entry.
NoFault == [kind |-> "none", at |-> 0]
Faults(src) ==
    {NoFault} \cup
    (IF src.kind = "dir"
     THEN [kind : {"walk"}, at : 1..Len(WalkDir(src.tree))]
     ELSE [kind : {"open", "tar"}, at : {0}])

\* the record fsPathStream sends for a node
WalkRecord(n) ==
    LET relPath == ToSlash(Rel(FullPath(n)))
    IN IF n.dir /\ ~HasSuffixSlash(relPath) THEN relPath \o <<"/">> ELSE relPath

\* a variant that skips an excluded directory but walks on beneath it
RECURSIVE fsWalkFn_noPrune(_, _, _, _, _, _)
fsWalkFn_noPrune(rest, idx, excl, canc, fault, acc) ==
    IF rest = <<>> THEN Stream(acc, acc, "none")
    ELSE LET n == rest[1]
             x == isExcluded(Rel(FullPath(n)), n.dir, excl)
         IN IF canc THEN Stream(acc, acc, "canceled")
            ELSE IF fault.kind = "walk" /\ fault.at = idx
                 THEN Stream(acc, acc, "walk")
            ELSE IF n = RootNode
                 THEN fsWalkFn_noPrune(Tail(rest), idx + 1, excl, canc, fault,
                                       acc)
            ELSE IF x = "error" THEN Stream(acc, acc, "pattern")
            ELSE IF x = "true"
                 THEN fsWalkFn_noPrune(Tail(rest), idx + 1, excl, canc, fault,
                                       acc)
            ELSE fsWalkFn_noPrune(Tail(rest), idx + 1, excl, canc, fault,
                                  Append(acc, WalkRecord(n)))

\* The walker goroutine of fsPathStream: fn over the entries WalkDir has
\* left, idx counting the fn calls, acc the records sent so far.
RECURSIVE fsWalkFn(_, _, _, _, _, _)
fsWalkFn(rest, idx, excl, canc, fault, acc) ==
    IF rest = <<>> THEN Stream(acc, acc, "none")
    ELSE LET n == rest[1]
             x == isExcluded(Rel(FullPath(n)), n.dir, excl)
         IN IF canc THEN Stream(acc, acc, "canceled")
            ELSE IF fault.kind = "walk" /\ fault.at = idx
                 THEN Stream(acc, acc, "walk")
            ELSE IF n = RootNode
                 THEN fsWalkFn(Tail(rest), idx + 1, excl, canc, fault, acc)
            ELSE IF x = "error" THEN Stream(acc, acc, "pattern")
            ELSE IF x = "true" /\ n.dir
                 THEN fsWalkFn(SkipDir(Tail(rest), n), idx + 1, excl, canc,
                               fault, acc)
            ELSE IF x = "true"
                 THEN fsWalkFn(Tail(rest), idx + 1, excl, canc, fault, acc)
            ELSE fsWalkFn(Tail(rest), idx + 1, excl, canc, fault,
                          Append(acc, WalkRecord(n)))

\* The reader goroutine of tarPathStream from header i on.
RECURSIVE tarReadLoop(_, _, _, _, _, _)
tarReadLoop(names, i, excl, canc, fault, acc) ==
    IF canc THEN Stream(acc, acc, "canceled")
    ELSE IF i > Len(names)
         THEN Stream(acc, acc, IF fault.kind = "tar" THEN "tar" ELSE "none")
    ELSE LET x == isExcluded(names[i], HasSuffixSlash(names[i]), excl)
         IN IF x = "error" THEN Stream(acc, acc, "pattern")
            ELSE IF x = "false"
                 THEN tarReadLoop(names, i + 1, excl, canc, fault,
                                  Append(acc, names[i]))
            ELSE tarReadLoop(names, i + 1, excl, canc, fault, acc)

\* what the producer goroutine of a source sends before it closes its channels
fsProducer(src, excl, canc, fault) ==
    fsWalkFn(WalkDir(src.tree), 1, excl, canc, fault, <<>>)

\* a variant of the reader that never asks isExcluded
tarProducer_noExcludes(src, excl, canc, fault) ==
    IF fault.kind = "open" THEN Stream(<<>>, <<>>, "open")
    ELSE tarReadLoop(src.names, 1, <<>>, canc, fault, <<>>)

\* a variant of the reader that never looks at ctx.Err()
tarProducer_ignoresCancel(src, excl, canc, fault) ==
    IF fault.kind = "open" THEN Stream(<<>>, <<>>, "open")
    ELSE tarReadLoop(src.names, 1, excl, FALSE, fault, <<>>)

tarProducer(src, excl, canc, fault) ==
    IF fault.kind = "open" THEN Stream(<<>>, <<>>, "open")
    ELSE tarReadLoop(src.names, 1, excl, canc, fault, <<>>)

Producer(src, excl, canc, fault) ==
    IF src.kind = "dir" THEN fsProducer(src, excl, canc, fault)
    ELSE tarProducer(src, excl, canc, fault)

\* a variant that hands out the walker's channel whatever the sort flag
fsPathStream_unsorted(src, sorted, excl, canc, fault, cfg, order) ==
    fsProducer(src, excl, canc, fault)

fsPathStream(src, sorted, excl, canc, fault, cfg, order) ==
    IF ~sorted THEN fsProducer(src, excl, canc, fault)
    ELSE extsortStrings(fsProducer(src, excl, canc, fault), cfg, order)

\* a variant that never sorts
tarPathStream_unsorted(src, sorted, excl, canc, fault, cfg, order) ==
    tarProducer(src, excl, canc, fault)

tarPathStream(src, sorted, excl, canc, fault, cfg, order) ==
    IF ~sorted THEN tarProducer(src, excl, canc, fault)
    ELSE extsortStrings(tarProducer(src, excl, canc, fault), cfg, order)

\* a variant that drops the sort flag on the way to the producers
multiPathStream_unsorted(src, sorted, excl, canc, fault, cfg, order) ==
    IF src.kind = "dir"
    THEN fsPathStream(src, FALSE, excl, canc, fault, cfg, order)
    ELSE tarPathStream(src, FALSE, excl, canc, fault, cfg, order)

\* a variant that reads every source as a tarball
multiPathStream_tarOnly(src, sorted, excl, canc, fault, cfg, order) ==
    tarPathStream(src, sorted, excl, canc, fault, cfg, order)

\* multiPathStream after a successful Stat: a directory is walked, anything
\* else is read as a tarball
multiPathStream(src, sorted, excl, canc, fault, cfg, order) ==
    IF src.kind = "dir"
    THEN fsPathStream(src, sorted, excl, canc, fault, cfg, order)
    ELSE tarPathStream(src, sorted, excl, canc, fault, cfg, order)

----------------------------------------------------------------------------
(* The archive writer (util.go: writeDummyFile) *)

baseFilePerms == 438
baseFolderPerms == 511

\* a variant that leaves a directory's name as it was handed in
writeDummyFile_noSlash(name, isDir) ==
    [name     |-> ToSlash(name),
     typeflag |-> IF isDir THEN "dir" ELSE "reg",
     mode     |-> IF isDir THEN baseFolderPerms ELSE baseFilePerms,
     size |-> 0, mtime |-> 0]

\* a variant that gives a directory the mode of a file
writeDummyFile_fileMode(name, isDir) ==
    LET slashed == ToSlash(name)
    IN [name     |-> IF isDir /\ ~HasSuffixSlash(slashed)
                     THEN slashed \o <<"/">> ELSE slashed,
        typeflag |-> IF isDir THEN "dir" ELSE "reg",
        mode     |-> baseFilePerms,
        size |-> 0, mtime |-> 0]

\* the tar header writeDummyFile writes
writeDummyFile(name, isDir) ==
    LET slashed == ToSlash(name)
    IN IF isDir
       THEN [name     |-> IF HasSuffixSlash(slashed) THEN slashed
                          ELSE slashed \o <<"/">>,
             typeflag |-> "dir", mode |-> baseFolderPerms,
             size |-> 0, mtime |-> 0]
       ELSE [name |-> slashed, typeflag |-> "reg", mode |-> baseFilePerms,
             size |-> 0, mtime |-> 0]

\* the names a reader finds in an archive made of these headers
HeaderNames(hdrs) == [i \in DOMAIN hdrs |-> hdrs[i].name]

----------------------------------------------------------------------------
(* The inputs tried *)

sB == <<"b">>
sBT == <<"b", ".", "t">>
sBdir == <<"b", "/">>
sBC == <<"b", "/", "c">>

\* header names of the input archives: a file, a directory and a file in it
ArchiveNames == {sBT, sBdir, sBC}

\* every archive of at most MaxEntries entries, in any order, names repeated
Archives ==
    {TarSource(ns) : ns \in UNION {[1..n -> ArchiveNames] : n \in 0..MaxEntries}}

\* every tree over the directory b, the file b/c and the file b.t
Trees ==
    {t \in SUBSET {Node(sB, TRUE), Node(sBC, FALSE), Node(sBT, FALSE)} :
        Node(sBC, FALSE) \in t => Node(sB, TRUE) \in t}

Dirs == {DirSource(t) : t \in Trees}

\* exclude lists: none; a directory-only pattern; a root-anchored file
\* pattern after a directory-only one that matches the same name; a
\* malformed pattern; a malformed pattern after a directory-only one
ExcludeLists ==
    { <<>>,
      << <<"b", "/">> >>,
      << <<"*", ".", "t", "/">>, <<"/", "b", "?", "t">> >>,
      << <<"b", "[">> >>,
      << <<"b", "/">>, <<"b", "[">> >> }

\* prog.gzipConfig: compression level, block size, block count
GzipConfigs ==
    [level : {-3, -1, 9}, blockSize : {-1, 1048576}, blockCount : {0, 2}]

\* the block settings of gzipConfigDefault on a machine with two processors;
\* Diff reads the level only
DiffGzipConfigs == {c \in GzipConfigs : c.blockSize = 1048576 /\ c.blockCount = 2}

\* nothing is left to set up from the configuration
NoGzipConfig == [level |-> 0, blockSize |-> 0, blockCount |-> 0]

\* gzip/pgzip NewWriterLevel accepts HuffmanOnly (-2) to BestCompression (9)
ValidLevel(level) == level \in (-2)..9

\* pgzip SetConcurrency wants a block above its tail size and a block count
ValidConcurrency(cfg) == cfg.blockSize > 16384 /\ cfg.blockCount > 0

----------------------------------------------------------------------------
(* Initial states: one command about to run, nothing written yet *)

NoResult == [ExtraA |-> 0, ExtraB |-> 0]

\* no function is called on its own
NoCall == [fn |-> "none"]
NoReturn == [value |-> <<>>, err |-> "pending"]

\* a channel: what it holds, whether it was closed, all that was ever sent
Chan(buf, closed) == [buf |-> buf, closed |-> closed, sent |-> buf]
NoChan == Chan(<<>>, FALSE)

\* no stream is followed channel by channel
NoPipe ==
    /\ producer = [pc |-> "none", rest |-> <<>>, item |-> <<>>]
    /\ pathsChan = NoChan /\ errsChan = NoChan
    /\ sorter = [pc |-> "none", buf |-> <<>>, out |-> <<>>]
    /\ sorterErrs = NoChan
    /\ merger = [pc |-> "none", extErrs |-> FALSE, sorterErrs |-> FALSE]
    /\ mergedErrs = NoChan
    /\ consumer = [got |-> <<>>, receiving |-> FALSE]

\* no call made and none deferred
NoWriter == calls = <<>> /\ defers = <<>>

\* createDummyTree is not running
NoTree ==
    /\ tasks = [buf |-> <<>>, closed |-> FALSE]
    /\ errCh = <<>>
    /\ once = FALSE
    /\ worker = <<>>
    /\ feeder = [pc |-> "none", d |-> 0]
    /\ made = [dirs |-> {}, files |-> {}]

\* the listed archive was not made by a Create of this run
NoOrigin == [tree |-> {}, excludes |-> <<>>, made |-> FALSE]

Idle ==
    /\ pc = "start"
    /\ cancelled = FALSE
    /\ outExists = FALSE
    /\ archive = <<>>
    /\ stdout = <<>>
    /\ walk = <<>>
    /\ origin = NoOrigin
    /\ paths = NoStream
    /\ oldStream = NoStream
    /\ newStream = NoStream
    /\ result = NoResult
    /\ ret = "pending"
    /\ cancelAt = "none"
    /\ exited = FALSE
    /\ exitCode = 0
    /\ tmpFiles = NoTempFiles
    /\ call = NoCall /\ returned = NoReturn
    /\ NoPipe
    /\ NoWriter
    /\ NoTree

InitCreate ==
    /\ op = "create"
    /\ input \in Dirs
    /\ excludes \in ExcludeLists
    /\ gzipConfig \in GzipConfigs
    /\ extSortConfig = extSortConfigDefault
    /\ cmpOld = NoSource /\ cmpNew = NoSource /\ sort = FALSE
    /\ Idle

InitList ==
    /\ op = "list"
    /\ input \in Archives
    /\ sort \in BOOLEAN
    /\ excludes = <<>>
    /\ gzipConfig = NoGzipConfig
    /\ extSortConfig \in SortConfigs \cup {extSortConfigDefault}
    /\ cmpOld = NoSource /\ cmpNew = NoSource
    /\ Idle

InitDiff ==
    /\ op = "diff"
    /\ cmpOld \in Dirs \cup Archives \cup {Missing}
    /\ cmpNew \in Dirs \cup Archives \cup {Missing}
    \* the two sources hold at most MaxEntries + 1 archive entries together
    /\ Len(cmpOld.names) + Len(cmpNew.names) <= MaxEntries + 1
    /\ excludes \in ExcludeLists
    /\ gzipConfig \in DiffGzipConfigs
    \* Diff sorts with the default configuration; List tries the others
    /\ extSortConfig = extSortConfigDefault
    /\ input = NoSource /\ sort = FALSE
    /\ Idle

Init == InitCreate \/ InitDiff \/ InitList

----------------------------------------------------------------------------
(* Returning: the deferred calls run as the operation returns *)

\* a variant without the deferred removal of the output
ReturnWith_noRemove(r, keep) ==
    /\ ret' = r
    /\ pc' = "done"
    /\ UNCHANGED outExists

\* Create and Diff: tw, gw and out are closed, then the output is removed
\* unless the operation completed (creationDone / hasDifferences)
ReturnWith(r, keep) ==
    /\ ret' = r
    /\ pc' = "done"
    /\ outExists' = keep

\* the context is cancelled (SIGINT / SIGTERM) while the operation runs
Cancel ==
    /\ pc \notin {"done", "killed"}
    /\ ~cancelled
    /\ cancelled' = TRUE
    /\ UNCHANGED <<op, pc, excludes, extSortConfig, input, cmpOld, cmpNew,
                   sort, outExists,
                   archive, stdout, walk, origin, paths, oldStream, newStream,
                   result, ret>>
    /\ cancelAt' = IF pc = "start" THEN "start" ELSE "running"
    /\ UNCHANGED <<gzipConfig, exited, exitCode, tmpFiles>>
    /\ UNCHANGED auxVars

----------------------------------------------------------------------------
(* Create (create.go) *)

\* out, err := prog.fs.Create(output)
CreateOutput ==
    /\ op = "create" /\ pc = "start"
    /\ \/ /\ ret' = "create" /\ pc' = "done"
          /\ UNCHANGED outExists
       \/ /\ outExists' = TRUE /\ pc' = "gzip"
          /\ UNCHANGED ret
    /\ UNCHANGED <<op, cancelled, excludes, extSortConfig, input, cmpOld, cmpNew, sort,
                   archive, stdout, walk, origin, paths, oldStream, newStream,
                   result>>
    /\ UNCHANGED <<gzipConfig, cancelAt, exited, exitCode, tmpFiles>>
    /\ UNCHANGED auxVars

\* pgzip.NewWriterLevel, gw.SetConcurrency, tar.NewWriter
CreateGzip ==
    /\ op = "create" /\ pc = "gzip"
    /\ IF ~ValidLevel(gzipConfig.level)
       THEN ReturnWith("gzip writer", FALSE) /\ UNCHANGED walk
       ELSE IF ~ValidConcurrency(gzipConfig)
       THEN ReturnWith("gzip settings", FALSE) /\ UNCHANGED walk
       ELSE /\ pc' = "walk"
            /\ walk' = WalkDir(input.tree)
            /\ UNCHANGED <<ret, outExists>>
    /\ UNCHANGED <<op, cancelled, excludes, extSortConfig, input, cmpOld, cmpNew, sort,
                   archive, stdout, origin, paths, oldStream, newStream,
                   result>>
    /\ gzipConfig' = NoGzipConfig
    /\ UNCHANGED <<cancelAt, exited, exitCode, tmpFiles>>
    /\ UNCHANGED auxVars

\* one call of the WalkDir callback, on the next entry of the walk
CreateVisit ==
    /\ op = "create" /\ pc = "walk" /\ walk # <<>>
    /\ LET n       == Head(walk)
           path    == FullPath(n)
           relPath == Rel(path)
           x       == isExcluded(relPath, n.dir, excludes)
       IN \/ /\ cancelled
             /\ ReturnWith("canceled", FALSE)
             /\ UNCHANGED <<walk, archive, stdout>>
          \/ /\ ~cancelled
             \* WalkDir hands fn an error (an unreadable entry)
             /\ ReturnWith("walk", FALSE)
             /\ UNCHANGED <<walk, archive, stdout>>
          \/ /\ ~cancelled
             /\ n = RootNode
             /\ walk' = Tail(walk)
             /\ UNCHANGED <<pc, ret, outExists, archive, stdout>>
          \/ /\ ~cancelled /\ n # RootNode
             /\ x = "error"
             /\ ReturnWith("pattern", FALSE)
             /\ UNCHANGED <<walk, archive, stdout>>
          \/ /\ ~cancelled /\ n # RootNode
             /\ x = "true"
             /\ walk' = IF n.dir THEN SkipDir(Tail(walk), n) ELSE Tail(walk)
             /\ UNCHANGED <<pc, ret, outExists, archive, stdout>>
          \/ /\ ~cancelled /\ n # RootNode
             /\ x = "false"
             \* tw.WriteHeader fails
             /\ ReturnWith("write", FALSE)
             /\ UNCHANGED <<walk, archive, stdout>>
          \/ /\ ~cancelled /\ n # RootNode
             /\ x = "false"
             /\ archive' = Append(archive, writeDummyFile(relPath, n.dir))
             /\ stdout' = Append(stdout, path)
             /\ walk' = Tail(walk)
             /\ UNCHANGED <<pc, ret, outExists>>
    /\ UNCHANGED <<op, cancelled, excludes, extSortConfig, input, cmpOld, cmpNew, sort,
                   origin, paths, oldStream, newStream, result>>
    /\ UNCHANGED <<gzipConfig, cancelAt, exited, exitCode, tmpFiles>>
    /\ UNCHANGED auxVars

\* WalkDir returned nil: creationDone = true; return nil
CreateDone ==
    /\ op = "create" /\ pc = "walk" /\ walk = <<>>
    /\ ReturnWith("nil", TRUE)
    /\ UNCHANGED <<op, cancelled, excludes, extSortConfig, input, cmpOld, cmpNew, sort,
                   archive, stdout, walk, origin, paths, oldStream, newStream,
                   result>>
    /\ UNCHANGED <<gzipConfig, cancelAt, exited, exitCode, tmpFiles>>
    /\ UNCHANGED auxVars

----------------------------------------------------------------------------
(* List (list.go) *)

\* paths, errs := prog.tarPathStream(ctx, input, sort, nil)
ListOpen ==
    /\ op = "list" /\ pc = "start"
    /\ \E fault \in Faults(input) :
         \E order \in RunOrders(tarProducer(input, <<>>, cancelled, fault).in,
                                extSortConfig) :
            paths' = tarPathStream(input, sort, <<>>, cancelled, fault,
                                   extSortConfig, order)
    /\ pc' = "print"
    /\ tmpFiles' = [tmpFiles EXCEPT
                       !.paths = IF sort THEN Spilled(paths'.in, extSortConfig)
                                 ELSE 0]
    /\ UNCHANGED <<op, cancelled, excludes, extSortConfig, input, cmpOld, cmpNew, sort,
                   outExists, archive, stdout, walk, origin, oldStream,
                   newStream, result, ret>>
    /\ UNCHANGED <<gzipConfig, cancelAt, exited, exitCode>>
    /\ UNCHANGED auxVars

\* a variant that cleans a path before it prints it
ListPrint_cleaned ==
    /\ op = "list" /\ pc = "print" /\ paths.out # <<>>
    /\ stdout' = Append(stdout, Clean(Head(paths.out)))
    /\ paths' = [paths EXCEPT !.out = Tail(@)]
    /\ UNCHANGED <<op, pc, cancelled, excludes, extSortConfig, input, cmpOld,
                   cmpNew, sort, outExists, archive, walk, origin, oldStream,
                   newStream, result, ret>>
    /\ UNCHANGED <<gzipConfig, cancelAt, exited, exitCode, tmpFiles>>
    /\ UNCHANGED auxVars

\* for path := range paths { fmt.Fprintln(prog.stdout, path) }
ListPrint ==
    /\ op = "list" /\ pc = "print" /\ paths.out # <<>>
    /\ stdout' = Append(stdout, Head(paths.out))
    /\ paths' = [paths EXCEPT !.out = Tail(@)]
    /\ UNCHANGED <<op, pc, cancelled, excludes, extSortConfig, input, cmpOld, cmpNew, sort,
                   outExists, archive, walk, origin, oldStream, newStream,
                   result, ret>>
    /\ UNCHANGED <<gzipConfig, cancelAt, exited, exitCode, tmpFiles>>
    /\ UNCHANGED auxVars

\* for err := range errs { ... }; return nil
ListReturn ==
    /\ op = "list" /\ pc = "print" /\ paths.out = <<>>
    \* the sorter closes its output after it has removed its files
    /\ tmpFiles.paths = 0
    /\ ret' = IF paths.err # "none" THEN paths.err ELSE "nil"
    /\ pc' = "done"
    /\ UNCHANGED <<op, cancelled, excludes, extSortConfig, input, cmpOld, cmpNew, sort,
                   outExists, archive, stdout, walk, origin, paths, oldStream,
                   newStream, result>>
    /\ UNCHANGED <<gzipConfig, cancelAt, exited, exitCode, tmpFiles>>
    /\ UNCHANGED auxVars

\* a new invocation: `treeball list` on the archive a Create has just made
ListCreated ==
    /\ op = "create" /\ pc = "done" /\ ret = "nil"
    /\ op' = "list"
    /\ origin' = [tree |-> input.tree, excludes |-> excludes, made |-> TRUE]
    /\ excludes' = <<>>
    /\ input' = TarSource(HeaderNames(archive))
    /\ sort' \in BOOLEAN
    /\ pc' = "start" /\ ret' = "pending"
    /\ cancelled' = FALSE
    /\ stdout' = <<>>
    /\ extSortConfig' \in SortConfigs
    /\ UNCHANGED <<cmpOld, cmpNew, outExists, archive, walk, paths,
                   oldStream, newStream, result>>
    /\ gzipConfig' = NoGzipConfig
    /\ cancelAt' = "none"
    /\ exited' = FALSE /\ exitCode' = 0
    /\ tmpFiles' = NoTempFiles
    /\ UNCHANGED auxVars

----------------------------------------------------------------------------
(* Diff (diff.go) *)

\* a variant of the merge that reports the head of the new side before a
\* different head of the old side, whichever is smaller
DiffAdvance_newFirst(a, b) ==
    IF a = <<>> /\ b = <<>>
    THEN [delta |-> "done", item |-> <<>>, a |-> a, b |-> b]
    ELSE IF a = <<>>
    THEN [delta |-> "NEW", item |-> b[1], a |-> a, b |-> Tail(b)]
    ELSE IF b = <<>>
    THEN [delta |-> "OLD", item |-> a[1], a |-> Tail(a), b |-> b]
    ELSE IF a[1] = b[1]
    THEN [delta |-> "none", item |-> a[1], a |-> Tail(a), b |-> Tail(b)]
    ELSE [delta |-> "NEW", item |-> b[1], a |-> a, b |-> Tail(b)]

\* One iteration of the two-way merge of diff.Strings over what is left of
\* the two sorted streams: the event it reports, if any, and what it leaves.
DiffAdvance(a, b) ==
    IF a = <<>> /\ b = <<>>
    THEN [delta |-> "done", item |-> <<>>, a |-> a, b |-> b]
    ELSE IF a = <<>>
    THEN [delta |-> "NEW", item |-> b[1], a |-> a, b |-> Tail(b)]
    ELSE IF b = <<>>
    THEN [delta |-> "OLD", item |-> a[1], a |-> Tail(a), b |-> b]
    ELSE IF a[1] = b[1]
    THEN [delta |-> "none", item |-> a[1], a |-> Tail(a), b |-> Tail(b)]
    ELSE IF StrLess(a[1], b[1])
    THEN [delta |-> "OLD", item |-> a[1], a |-> Tail(a), b |-> b]
    ELSE [delta |-> "NEW", item |-> b[1], a |-> a, b |-> Tail(b)]

\* every event diff.Strings reports for two streams it reads to their end
RECURSIVE DiffEvents(_, _)
DiffEvents(a, b) ==
    LET s == DiffAdvance(a, b)
    IN IF s.delta = "done" THEN <<>>
       ELSE IF s.delta = "none" THEN DiffEvents(s.a, s.b)
       ELSE <<[delta |-> s.delta, item |-> s.item]>> \o DiffEvents(s.a, s.b)

\* a variant that marks every event as a removal
deltaCallback_oneMark(delta, item) ==
    LET mark  == <<"-", "-", "-">>
        isDir == HasSuffixSlash(item)
    IN [line |-> mark \o <<" ">> \o item,
        hdr  |-> writeDummyFile(Join(mark, item), isDir)]

\* a variant that writes every event as a regular entry
deltaCallback_fileOnly(delta, item) ==
    LET mark  == IF delta = "OLD" THEN <<"-", "-", "-">> ELSE <<"+", "+", "+">>
    IN [line |-> mark \o <<" ">> \o item,
        hdr  |-> writeDummyFile(Join(mark, item), FALSE)]

\* the delta callback Diff hands to diff.Strings: the stdout line and the
\* tar header for an event
deltaCallback(delta, item) ==
    LET mark  == IF delta = "OLD" THEN <<"-", "-", "-">> ELSE <<"+", "+", "+">>
        isDir == HasSuffixSlash(item)
    IN [line |-> mark \o <<" ">> \o item,
        hdr  |-> writeDummyFile(Join(mark, item), isDir)]

\* a variant that looks at the removals only
hasDifferences_removalsOnly(r) == r.ExtraA > 0

\* if result.ExtraA > 0 || result.ExtraB > 0
hasDifferences(r) == r.ExtraA > 0 \/ r.ExtraB > 0

\* the sorted streams Diff may get for a source, one for each thing the
\* environment and the sorter's workers may do
OpenSorted(src, excl, canc, cfg) ==
    { multiPathStream(src, TRUE, excl, canc, f[1], cfg, f[2]) :
        f \in UNION { { <<fault, order>> :
                     order \in RunOrders(Producer(src, excl, canc, fault).in,
                                         cfg) } : fault \in Faults(src) } }

\* out, err := prog.fs.Create(output)
DiffOutput ==
    /\ op = "diff" /\ pc = "start"
    /\ \/ /\ ret' = "create" /\ pc' = "done"
          /\ UNCHANGED outExists
       \/ /\ outExists' = TRUE /\ pc' = "gzip"
          /\ UNCHANGED ret
    /\ UNCHANGED <<op, cancelled, excludes, extSortConfig, input, cmpOld, cmpNew, sort,
                   archive, stdout, walk, origin, paths, oldStream, newStream,
                   result>>
    /\ UNCHANGED <<gzipConfig, cancelAt, exited, exitCode, tmpFiles>>
    /\ UNCHANGED auxVars

\* gzip.NewWriterLevel, tar.NewWriter
DiffGzip ==
    /\ op = "diff" /\ pc = "gzip"
    /\ IF ~ValidLevel(gzipConfig.level)
       THEN ReturnWith("gzip writer", FALSE)
       ELSE pc' = "openOld" /\ UNCHANGED <<ret, outExists>>
    /\ UNCHANGED <<op, cancelled, excludes, extSortConfig, input, cmpOld, cmpNew, sort,
                   archive, stdout, walk, origin, paths, oldStream, newStream,
                   result>>
    /\ gzipConfig' = NoGzipConfig
    /\ UNCHANGED <<cancelAt, exited, exitCode, tmpFiles>>
    /\ UNCHANGED auxVars

\* prog.multiPathStream(ctx, cmpOld, true, excludes)
DiffOpenOld ==
    /\ op = "diff" /\ pc = "openOld"
    /\ IF cmpOld.kind = "missing"
       THEN ReturnWith("stat", FALSE) /\ UNCHANGED <<oldStream, tmpFiles>>
       ELSE /\ oldStream' \in OpenSorted(cmpOld, excludes, cancelled, extSortConfig)
            /\ tmpFiles' = [tmpFiles EXCEPT
                               !.old = Spilled(oldStream'.in, extSortConfig)]
            /\ pc' = "openNew"
            /\ UNCHANGED <<ret, outExists>>
    /\ UNCHANGED <<op, cancelled, excludes, extSortConfig, input, cmpOld, cmpNew, sort,
                   archive, stdout, walk, origin, paths, newStream, result>>
    /\ UNCHANGED <<gzipConfig, cancelAt, exited, exitCode>>
    /\ UNCHANGED auxVars

\* prog.multiPathStream(ctx, cmpNew, true, excludes)
DiffOpenNew ==
    /\ op = "diff" /\ pc = "openNew"
    /\ IF cmpNew.kind = "missing"
       THEN ReturnWith("stat", FALSE) /\ UNCHANGED <<newStream, tmpFiles>>
       ELSE /\ newStream' \in OpenSorted(cmpNew, excludes, cancelled, extSortConfig)
            /\ tmpFiles' = [tmpFiles EXCEPT
                               !.new = Spilled(newStream'.in, extSortConfig)]
            /\ pc' = "merge"
            /\ UNCHANGED <<ret, outExists>>
    /\ UNCHANGED <<op, cancelled, excludes, extSortConfig, input, cmpOld, cmpNew, sort,
                   archive, stdout, walk, origin, paths, oldStream, result>>
    /\ UNCHANGED <<gzipConfig, cancelAt, exited, exitCode>>
    /\ UNCHANGED auxVars

\* a variant of the engine that watches the error channel of the old side
\* only
UpstreamErrors_oldOnly(o, n) == {o.err} \ {"none"}

\* the errors waiting on the two error channels handed to diff.Strings
UpstreamErrors(o, n) == {o.err, n.err} \ {"none"}

\* One iteration of diff.Strings with Diff's callback, up to Diff's return.
\* An error waiting on an error channel is seen by the engine at some
\* iteration, at the latest when both streams are drained.
DiffStep ==
    /\ op = "diff" /\ pc = "merge"
    /\ LET s  == DiffAdvance(oldStream.out, newStream.out)
           cb == deltaCallback(s.delta, s.item)
           r  == IF s.delta = "OLD"
                 THEN [result EXCEPT !.ExtraA = @ + 1]
                 ELSE [result EXCEPT !.ExtraB = @ + 1]
           \* a stream the engine finds closed: the sorter closes its
           \* output after it has removed its files
           closed == /\ oldStream.out = <<>> => tmpFiles.old = 0
                     /\ newStream.out = <<>> => tmpFiles.new = 0
       IN \/ /\ cancelled
             /\ ReturnWith("canceled", FALSE)
             /\ result' = NoResult
             /\ UNCHANGED <<archive, stdout, oldStream, newStream>>
          \/ /\ \E e \in UpstreamErrors(oldStream, newStream) :
                    ReturnWith(e, FALSE)
             /\ result' = NoResult
             /\ UNCHANGED <<archive, stdout, oldStream, newStream>>
          \/ /\ ~cancelled /\ closed
             /\ s.delta = "none"
             /\ oldStream' = [oldStream EXCEPT !.out = s.a]
             /\ newStream' = [newStream EXCEPT !.out = s.b]
             /\ UNCHANGED <<pc, ret, outExists, archive, stdout, result>>
          \/ /\ ~cancelled /\ closed
             /\ s.delta \in {"OLD", "NEW"}
             /\ stdout' = Append(stdout, cb.line)
             /\ archive' = Append(archive, cb.hdr)
             /\ result' = r
             /\ oldStream' = [oldStream EXCEPT !.out = s.a]
             /\ newStream' = [newStream EXCEPT !.out = s.b]
             /\ UNCHANGED <<pc, ret, outExists>>
          \/ /\ ~cancelled /\ closed
             /\ s.delta \in {"OLD", "NEW"}
             \* tw.WriteHeader fails after the line was printed
             /\ stdout' = Append(stdout, cb.line)
             /\ ReturnWith("write", FALSE)
             /\ result' = NoResult
             /\ UNCHANGED <<archive, oldStream, newStream>>
          \/ /\ ~cancelled /\ closed
             /\ s.delta = "done"
             /\ UpstreamErrors(oldStream, newStream) = {}
             /\ IF hasDifferences(result)
                THEN ReturnWith("ErrDiffsFound", TRUE)
                ELSE ReturnWith("nil", FALSE)
             /\ UNCHANGED <<archive, stdout, oldStream, newStream, result>>
    /\ UNCHANGED <<op, cancelled, excludes, extSortConfig, input, cmpOld, cmpNew, sort,
                   walk, origin, paths>>
    /\ UNCHANGED <<gzipConfig, cancelAt, exited, exitCode, tmpFiles>>
    /\ UNCHANGED auxVars

----------------------------------------------------------------------------
(* The sorter tasks started by extsortStrings *)

\* the stream a sorter task feeds
StreamOf(s) ==
    IF s = "paths" THEN paths ELSE IF s = "old" THEN oldStream ELSE newStream

\* go sorter.Sort(ctx): a sorter task removes its temporary files when it
\* has handed over its last record, before it closes its output, or when it
\* finds the context cancelled.  A task whose output is not received stays
\* blocked on it with its files on disk; the task runs on after the
\* operation that started it has returned.
SorterCleanup ==
    /\ \E s \in DOMAIN tmpFiles :
          /\ tmpFiles[s] > 0
          /\ cancelled \/ StreamOf(s).out = <<>>
          /\ tmpFiles' = [tmpFiles EXCEPT ![s] = 0]
    /\ UNCHANGED <<op, pc, cancelled, excludes, extSortConfig, input, cmpOld,
                   cmpNew, sort, outExists, archive, stdout, walk, origin,
                   paths, oldStream, newStream, result, ret, gzipConfig,
                   cancelAt, exited, exitCode>>
    /\ UNCHANGED auxVars

----------------------------------------------------------------------------
(* main (main.go): the exit code *)

exitCodeSuccess == 0
exitCodeDiffsFound == 1
exitCodeFailure == 2

\* a variant that does not tell ErrDiffsFound from a failure
MainExit_noSentinel ==
    /\ pc = "done" /\ ~exited /\ ~cancelled
    /\ exited' = TRUE
    /\ exitCode' = IF ret = "nil" THEN exitCodeSuccess ELSE exitCodeFailure
    /\ UNCHANGED <<op, pc, cancelled, excludes, extSortConfig, input, cmpOld,
                   cmpNew, sort, outExists, archive, stdout, walk, origin,
                   paths, oldStream, newStream, result, ret, gzipConfig,
                   cancelAt, tmpFiles>>
    /\ UNCHANGED auxVars

\* the command's error arrives on errChan before any signal
MainExit ==
    /\ pc = "done" /\ ~exited /\ ~cancelled
    /\ exited' = TRUE
    /\ exitCode' = IF ret = "nil" THEN exitCodeSuccess
                   ELSE IF ret = "ErrDiffsFound" THEN exitCodeDiffsFound
                   ELSE exitCodeFailure
    /\ UNCHANGED <<op, pc, cancelled, excludes, extSortConfig, input, cmpOld,
                   cmpNew, sort, outExists, archive, stdout, walk, origin,
                   paths, oldStream, newStream, result, ret, gzipConfig,
                   cancelAt, tmpFiles>>
    /\ UNCHANGED auxVars

\* a variant that sets the exit code after a signal as it is set without one
MainInterrupted_byError ==
    /\ pc = "done" /\ ~exited /\ cancelled
    /\ exited' = TRUE
    /\ exitCode' = IF ret = "nil" THEN exitCodeSuccess
                   ELSE IF ret = "ErrDiffsFound" THEN exitCodeDiffsFound
                   ELSE exitCodeFailure
    /\ UNCHANGED <<op, pc, cancelled, excludes, extSortConfig, input, cmpOld,
                   cmpNew, sort, outExists, archive, stdout, walk, origin,
                   paths, oldStream, newStream, result, ret, gzipConfig,
                   cancelAt, tmpFiles>>
    /\ UNCHANGED auxVars

\* after a signal and cancel(): the command returns within exitTimeout
MainInterrupted ==
    /\ pc = "done" /\ ~exited /\ cancelled
    /\ exited' = TRUE
    /\ exitCode' = exitCodeFailure
    /\ UNCHANGED <<op, pc, cancelled, excludes, extSortConfig, input, cmpOld,
                   cmpNew, sort, outExists, archive, stdout, walk, origin,
                   paths, oldStream, newStream, result, ret, gzipConfig,
                   cancelAt, tmpFiles>>
    /\ UNCHANGED auxVars

\* after a signal and cancel(): exitTimeout passes first and the process
\* exits with the command still running
MainKilled ==
    /\ pc \notin {"done", "killed"} /\ ~exited /\ cancelled
    /\ exited' = TRUE
    /\ exitCode' = exitCodeFailure
    /\ pc' = "killed"
    /\ UNCHANGED <<op, cancelled, excludes, extSortConfig, input, cmpOld,
                   cmpNew, sort, outExists, archive, stdout, walk, origin,
                   paths, oldStream, newStream, result, ret, gzipConfig,
                   cancelAt, tmpFiles>>
    /\ UNCHANGED auxVars

----------------------------------------------------------------------------

Next ==
    \/ Cancel
    \/ CreateOutput \/ CreateGzip \/ CreateVisit \/ CreateDone
    \/ DiffOutput \/ DiffGzip \/ DiffOpenOld \/ DiffOpenNew \/ DiffStep
    \/ ListOpen \/ ListPrint \/ ListReturn \/ ListCreated
    \/ SorterCleanup

\* the operations as a caller of Create, Diff and List sees them
Spec == Init /\ [][Next]_vars

\* the operations run by main
MainNext ==
    \/ Cancel
    \/ CreateOutput \/ CreateGzip \/ CreateVisit \/ CreateDone
    \/ DiffOutput \/ DiffGzip \/ DiffOpenOld \/ DiffOpenNew \/ DiffStep
    \/ ListOpen \/ ListPrint \/ ListReturn \/ ListCreated
    \/ SorterCleanup
    \/ MainExit \/ MainInterrupted \/ MainKilled

\* the process: main runs a command, takes signals and exits
MainSpec == Init /\ [][MainNext]_vars

\* case <-sigChan, with the command's error already waiting on errChan: the
\* select of main takes either case that is ready
MainSignalled ==
    /\ pc = "done" /\ ~exited /\ ~cancelled
    /\ cancelled' = TRUE
    /\ cancelAt' = "returned"
    /\ UNCHANGED <<op, pc, excludes, extSortConfig, input, cmpOld, cmpNew,
                   sort, outExists, archive, stdout, walk, origin, paths,
                   oldStream, newStream, result, ret, gzipConfig, exited,
                   exitCode, tmpFiles>>
    /\ UNCHANGED auxVars

\* the inner select of main: it takes the case of errChan or the case of
\* the timer
MainAfterSignal == MainInterrupted \/ MainKilled

SignalNext ==
    \/ Cancel
    \/ CreateOutput \/ CreateGzip \/ CreateVisit \/ CreateDone
    \/ DiffOutput \/ DiffGzip \/ DiffOpenOld \/ DiffOpenNew \/ DiffStep
    \/ ListOpen \/ ListPrint \/ ListReturn
    \/ SorterCleanup
    \/ MainExit \/ MainSignalled \/ MainInterrupted \/ MainKilled

\* one process with its signals, running one command: the timer of
\* exitTimeout fires in the end, so main does not wait in its inner select
\* for ever; nothing is assumed of the command
SignalSpec == Init /\ [][SignalNext]_vars /\ WF_vars(MainAfterSignal)

----------------------------------------------------------------------------
(* Diff of archives that another tool wrote, sorted in small chunks *)

sDotB == <<".", "/", "b">>
sDotBdir == <<".", "/", "b", "/">>

\* header names as tar writes them for ".": a file and a directory with a
\* leading "./", and a plain name
ForeignNames == {sDotB, sDotBdir, sB}

ForeignArchives ==
    {TarSource(ns) : ns \in UNION {[1..n -> ForeignNames] : n \in 0..MaxEntries}}

\* Diff on two such archives (or a missing path), with a sorter
\* configuration under which the inputs do not fit into one chunk
InitForeign ==
    /\ op = "diff"
    /\ cmpOld \in ForeignArchives \cup {Missing}
    /\ cmpNew \in ForeignArchives \cup {Missing}
    /\ Len(cmpOld.names) + Len(cmpNew.names) <= MaxEntries + 1
    /\ excludes = <<>>
    /\ gzipConfig = [level |-> 9, blockSize |-> 1048576, blockCount |-> 2]
    /\ extSortConfig \in SortConfigs
    /\ input = NoSource /\ sort = FALSE
    /\ Idle

ForeignNext ==
    \/ Cancel
    \/ DiffOutput \/ DiffGzip \/ DiffOpenOld \/ DiffOpenNew \/ DiffStep
    \/ SorterCleanup

ForeignSpec == InitForeign /\ [][ForeignNext]_vars

----------------------------------------------------------------------------
(* Exclude arguments (util.go: mergeExcludes) *)

\* strings.TrimSpace, for lines whose only white space is the blank
RECURSIVE TrimLeft(_)
TrimLeft(s) == IF s # <<>> /\ s[1] = " " THEN TrimLeft(Tail(s)) ELSE s
RECURSIVE TrimRight(_)
TrimRight(s) ==
    IF s # <<>> /\ s[Len(s)] = " " THEN TrimRight(SubSeq(s, 1, Len(s) - 1))
    ELSE s
TrimSpace(s) == TrimRight(TrimLeft(s))

\* the scanner loop of mergeExcludes over the lines of the file
RECURSIVE ScanLines(_, _)
ScanLines(lines, excl) ==
    IF lines = <<>> THEN excl
    ELSE LET line == TrimSpace(Head(lines))
         IN IF line = <<>> \/ line[1] = "#"
            THEN ScanLines(Tail(lines), excl)
            ELSE ScanLines(Tail(lines), Append(excl, line))

\* the --excludes-from argument: not given (the empty path), the path of
\* no file, or a file of lines the scanner reads or fails on
NoFile == [kind |-> "none", lines |-> <<>>]
MissingFile == [kind |-> "missing", lines |-> <<>>]
ExcludeFile(lines) == [kind |-> "file", lines |-> lines]
BrokenFile(lines) == [kind |-> "broken", lines |-> lines]

\* a variant that puts the inline patterns before the lines of the file
mergeExcludes_inlineFirst(excludeSlice, excludeFile) ==
    IF excludeFile.kind = "missing"
    THEN [value |-> <<>>, err |-> "open exclude file"]
    ELSE IF excludeFile.kind = "broken"
    THEN [value |-> <<>>, err |-> "reading exclude file"]
    ELSE [value |-> excludeSlice \o ScanLines(excludeFile.lines, <<>>),
          err |-> "nil"]

\* prog.mergeExcludes(excludeSlice, excludeFile)
mergeExcludes(excludeSlice, excludeFile) ==
    IF excludeFile.kind = "missing"
    THEN [value |-> <<>>, err |-> "open exclude file"]
    ELSE IF excludeFile.kind = "broken"
    THEN [value |-> <<>>, err |-> "reading exclude file"]
    ELSE [value |-> ScanLines(excludeFile.lines, <<>>) \o excludeSlice,
          err |-> "nil"]

----------------------------------------------------------------------------
(* Single functions called on their own, as the unit tests call them *)

\* lines of an exclude file: blank, white space only, a comment, a comment
\* after white space, and patterns with and without white space around them
sHashB == <<"#", "b">>
FileLines ==
    { <<>>, <<" ">>, sHashB, <<" ">> \o sHashB, sBT, <<" ">> \o sBdir \o <<" ">> }

ExcludeFiles ==
    {NoFile, MissingFile} \cup
    {ExcludeFile(ls) : ls \in UNION {[1..n -> FileLines] : n \in 0..MaxEntries}} \cup
    {BrokenFile(<<l>>) : l \in FileLines}

\* inline --exclude arguments
ExcludeSlices == {<<>>, <<sB>>, <<sBC, sBdir>>}

\* paths and pattern lists handed to isExcluded
MatchPaths == {sB, sBT, sBC, sDotB, sB \o <<"/">> \o <<"/">> \o <<"c">>}
PatternLists ==
    ExcludeLists \cup
    { << <<"/", "b", "/">> >>,
      << <<"b", "/">>, <<"b">> >>,
      << <<"b", "[">>, <<"b">> >>,
      << <<"b">>, <<"b", "[">> >>,
      << <<"*">> >>,
      << <<"b", "/", "*">> >>,
      << <<"/", "/", "b">> >> }

MergeCalls ==
    [fn : {"mergeExcludes"}, excludeSlice : ExcludeSlices,
     excludeFile : ExcludeFiles]
ExcludedCalls ==
    [fn : {"isExcluded"}, path : MatchPaths, isDir : BOOLEAN,
     excludes : PatternLists]

InitUnit ==
    /\ op = "unit"
    /\ excludes = <<>>
    /\ gzipConfig = NoGzipConfig
    /\ extSortConfig = extSortConfigDefault
    /\ input = NoSource /\ cmpOld = NoSource /\ cmpNew = NoSource
    /\ sort = FALSE
    /\ pc = "start"
    /\ cancelled = FALSE
    /\ outExists = FALSE
    /\ archive = <<>>
    /\ stdout = <<>>
    /\ walk = <<>>
    /\ origin = NoOrigin
    /\ paths = NoStream
    /\ oldStream = NoStream
    /\ newStream = NoStream
    /\ result = NoResult
    /\ ret = "pending"
    /\ cancelAt = "none"
    /\ exited = FALSE
    /\ exitCode = 0
    /\ tmpFiles = NoTempFiles
    /\ call \in MergeCalls \cup ExcludedCalls
    /\ returned = NoReturn
    /\ NoPipe
    /\ NoWriter
    /\ NoTree

\* every variable of an operation
opVars ==
    <<op, pc, cancelled, excludes, extSortConfig, input, cmpOld, cmpNew, sort,
      outExists, archive, stdout, walk, origin, paths, oldStream, newStream,
      result, ret, gzipConfig, cancelAt, exited, exitCode, tmpFiles,
      writerVars, treeVars>>

\* result, err := prog.mergeExcludes(excludeSlice, excludeFile)
CallMergeExcludes ==
    /\ call.fn = "mergeExcludes" /\ returned = NoReturn
    /\ returned' = mergeExcludes(call.excludeSlice, call.excludeFile)
    /\ UNCHANGED <<call, opVars, pipeVars>>

\* excluded, err := isExcluded(path, isDir, excludes)
CallIsExcluded ==
    /\ call.fn = "isExcluded" /\ returned = NoReturn
    /\ LET x == isExcluded(call.path, call.isDir, call.excludes)
       IN returned' = [value |-> x = "true",
                       err   |-> IF x = "error" THEN "invalid exclude pattern"
                                 ELSE "nil"]
    /\ UNCHANGED <<call, opVars, pipeVars>>

UnitNext == CallMergeExcludes \/ CallIsExcluded

UnitSpec == InitUnit /\ [][UnitNext]_vars

----------------------------------------------------------------------------
(* One sorted path stream, channel by channel (util.go: tarPathStream,    *)
(* fsPathStream, extsortStrings)                                           *)

\* capacity of a paths channel, scaled down (tarStreamBuffer and
\* fsStreamBuffer are 1000)
MaxBuffer == 1

Send(ch, x) == [ch EXCEPT !.buf = Append(@, x), !.sent = Append(@, x)]
Close(ch) == [ch EXCEPT !.closed = TRUE]
Receive(ch) == [ch EXCEPT !.buf = Tail(@)]

\* the headers the reader is to find, or the entries the walker is to visit
StreamInputs == UNION {[1..n -> {sB, sBT}] : n \in 0..MaxEntries}

\* the exclude lists of a stream: none, or a pattern that matches b before
\* a malformed one
StreamExcludes == {<<>>, <<sB, <<"b", "[">> >>}

InitStream ==
    /\ op = "stream"
    /\ excludes \in StreamExcludes
    /\ gzipConfig = NoGzipConfig
    /\ extSortConfig = extSortConfigDefault
    /\ input = NoSource /\ cmpOld = NoSource /\ cmpNew = NoSource
    /\ sort = TRUE
    /\ pc = "start"
    /\ cancelled = FALSE
    /\ outExists = FALSE
    /\ archive = <<>>
    /\ stdout = <<>>
    /\ walk = <<>>
    /\ origin = NoOrigin
    /\ paths = NoStream
    /\ oldStream = NoStream
    /\ newStream = NoStream
    /\ result = NoResult
    /\ ret = "pending"
    /\ cancelAt = "none"
    /\ exited = FALSE
    /\ exitCode = 0
    /\ tmpFiles = NoTempFiles
    /\ call = NoCall /\ returned = NoReturn
    /\ NoWriter
    /\ NoTree
    /\ producer \in [pc : {"open"}, rest : StreamInputs, item : {<<>>}]
    /\ pathsChan = NoChan /\ errsChan = NoChan
    /\ sorter = [pc |-> "read", buf |-> <<>>, out |-> <<>>]
    /\ sorterErrs = NoChan
    /\ merger = [pc |-> "select", extErrs |-> TRUE, sorterErrs |-> TRUE]
    /\ mergedErrs = NoChan
    /\ consumer = [got |-> <<>>, receiving |-> TRUE]

\* The reader goroutine before its loop: prog.fs.Open and gzip.NewReader.
\* A failure of either is sent as the one error and the goroutine returns,
\* closing its channels.
ProducerOpen ==
    /\ producer.pc = "open"
    /\ \/ \E e \in {"open", "gzip"} :
             /\ errsChan' = Close(Send(errsChan, e))
             /\ pathsChan' = Close(pathsChan)
             /\ producer' = [producer EXCEPT !.pc = "closed"]
       \/ /\ producer' = [producer EXCEPT !.pc = "check"]
          /\ UNCHANGED <<pathsChan, errsChan>>
    /\ UNCHANGED <<opVars, call, returned, sorter, sorterErrs, merger,
                   mergedErrs, consumer>>

\* a variant of the loop that goes on to the next header after it has sent
\* the error of isExcluded
ProducerCheck_goesOn ==
    /\ producer.pc = "check"
    /\ \/ /\ cancelled
          /\ errsChan' = Close(Send(errsChan, "canceled"))
          /\ pathsChan' = Close(pathsChan)
          /\ producer' = [producer EXCEPT !.pc = "closed"]
       \/ /\ ~cancelled
          /\ errsChan' = Close(Send(errsChan, "tar"))
          /\ pathsChan' = Close(pathsChan)
          /\ producer' = [producer EXCEPT !.pc = "closed"]
       \/ /\ ~cancelled /\ producer.rest = <<>>
          /\ errsChan' = Close(errsChan)
          /\ pathsChan' = Close(pathsChan)
          /\ producer' = [producer EXCEPT !.pc = "closed"]
       \/ /\ ~cancelled /\ producer.rest # <<>>
          /\ LET name == Head(producer.rest)
                 x    == isExcluded(name, HasSuffixSlash(name), excludes)
             IN IF x = "error"
                THEN /\ errsChan.buf = <<>>
                     /\ errsChan' = Send(errsChan, "pattern")
                     /\ producer' = [producer EXCEPT !.rest = Tail(@)]
                     /\ UNCHANGED pathsChan
                ELSE /\ producer' =
                          [pc   |-> IF x = "true" THEN "check" ELSE "send",
                           rest |-> Tail(producer.rest),
                           item |-> IF x = "true" THEN <<>> ELSE name]
                     /\ UNCHANGED <<pathsChan, errsChan>>
    /\ UNCHANGED <<opVars, call, returned, sorter, sorterErrs, merger,
                   mergedErrs, consumer>>

\* The producer goroutine at the top of its loop: ctx.Err(), then the next
\* header (or the next call of the walk function) and isExcluded on it.  It
\* sends at most one error, into an error channel of capacity one, and
\* closes its channels as it returns.
ProducerCheck ==
    /\ producer.pc = "check"
    /\ \/ /\ cancelled
          /\ errsChan' = Close(Send(errsChan, "canceled"))
          /\ pathsChan' = Close(pathsChan)
          /\ producer' = [producer EXCEPT !.pc = "closed"]
       \/ /\ ~cancelled
          \* tr.Next() fails
          /\ errsChan' = Close(Send(errsChan, "tar"))
          /\ pathsChan' = Close(pathsChan)
          /\ producer' = [producer EXCEPT !.pc = "closed"]
       \/ /\ ~cancelled /\ producer.rest = <<>>
          /\ errsChan' = Close(errsChan)
          /\ pathsChan' = Close(pathsChan)
          /\ producer' = [producer EXCEPT !.pc = "closed"]
       \/ /\ ~cancelled /\ producer.rest # <<>>
          /\ LET name == Head(producer.rest)
                 x    == isExcluded(name, HasSuffixSlash(name), excludes)
             IN IF x = "error"
                THEN /\ errsChan' = Close(Send(errsChan, "pattern"))
                     /\ pathsChan' = Close(pathsChan)
                     /\ producer' = [producer EXCEPT !.pc = "closed"]
                ELSE /\ producer' =
                          [pc   |-> IF x = "true" THEN "check" ELSE "send",
                           rest |-> Tail(producer.rest),
                           item |-> IF x = "true" THEN <<>> ELSE name]
                     /\ UNCHANGED <<pathsChan, errsChan>>
    /\ UNCHANGED <<opVars, call, returned, sorter, sorterErrs, merger,
                   mergedErrs, consumer>>

\* paths <- hdr.Name / paths <- relPath: a plain send, which waits for room
\* in the channel
ProducerSend ==
    /\ producer.pc = "send"
    /\ Len(pathsChan.buf) < MaxBuffer
    /\ pathsChan' = Send(pathsChan, producer.item)
    /\ producer' = [producer EXCEPT !.pc = "check", !.item = <<>>]
    /\ UNCHANGED <<opVars, call, returned, errsChan, sorter, sorterErrs,
                   merger, mergedErrs, consumer>>

\* the sorter takes a record from its input
SorterPull ==
    /\ sorter.pc = "read"
    /\ pathsChan.buf # <<>>
    /\ sorter' = [sorter EXCEPT !.buf = Append(@, Head(pathsChan.buf))]
    /\ pathsChan' = Receive(pathsChan)
    /\ UNCHANGED <<opVars, call, returned, producer, errsChan, sorterErrs,
                   merger, mergedErrs, consumer>>

\* the sorter finds its input closed and starts to merge
SorterInputClosed ==
    /\ sorter.pc = "read"
    /\ pathsChan.buf = <<>> /\ pathsChan.closed
    /\ sorter' = [sorter EXCEPT !.pc = "merge", !.out = SortChunk(sorter.buf)]
    /\ UNCHANGED <<opVars, call, returned, producer, pathsChan, errsChan,
                   sorterErrs, merger, mergedErrs, consumer>>

\* the sorter hands its next record to the receiver of its output
SorterEmit ==
    /\ sorter.pc = "merge"
    /\ sorter.out # <<>>
    /\ consumer.receiving
    /\ consumer' = [consumer EXCEPT !.got = Append(@, Head(sorter.out))]
    /\ sorter' = [sorter EXCEPT !.out = Tail(@)]
    /\ UNCHANGED <<opVars, call, returned, producer, pathsChan, errsChan,
                   sorterErrs, merger, mergedErrs>>

\* the sorter has handed over its last record: it closes its output and its
\* error channel
SorterFinish ==
    /\ sorter.pc = "merge"
    /\ sorter.out = <<>>
    /\ sorter' = [sorter EXCEPT !.pc = "done"]
    /\ sorterErrs' = Close(sorterErrs)
    /\ UNCHANGED <<opVars, call, returned, producer, pathsChan, errsChan,
                   merger, mergedErrs, consumer>>

\* the sorter finds the context cancelled: it stops taking input, breaks
\* off the merge, reports the cancellation and closes its output
SorterCancelled ==
    /\ sorter.pc \in {"read", "merge"}
    /\ cancelled
    /\ sorter' = [sorter EXCEPT !.pc = "stopped"]
    /\ sorterErrs' = Close(Send(sorterErrs, "canceled"))
    /\ UNCHANGED <<opVars, call, returned, producer, pathsChan, errsChan,
                   merger, mergedErrs, consumer>>

\* the sorter fails on a temporary file
SorterFails ==
    /\ sorter.pc \in {"read", "merge"}
    /\ sorter' = [sorter EXCEPT !.pc = "stopped"]
    /\ sorterErrs' = Close(Send(sorterErrs, "sorter"))
    /\ UNCHANGED <<opVars, call, returned, producer, pathsChan, errsChan,
                   merger, mergedErrs, consumer>>

\* case err, ok := <-extErrs
MergerRecvExt ==
    /\ merger.pc = "select" /\ merger.extErrs
    /\ errsChan.buf # <<>> \/ errsChan.closed
    /\ IF errsChan.buf # <<>>
       THEN /\ mergedErrs' = Close(Send(mergedErrs, Head(errsChan.buf)))
            /\ errsChan' = Receive(errsChan)
            /\ merger' = [merger EXCEPT !.pc = "done"]
       ELSE /\ merger' = [merger EXCEPT
                             !.extErrs = FALSE,
                             !.pc = IF merger.sorterErrs THEN "select"
                                    ELSE "done"]
            /\ mergedErrs' = IF merger.sorterErrs THEN mergedErrs
                             ELSE Close(mergedErrs)
            /\ UNCHANGED errsChan
    /\ UNCHANGED <<opVars, call, returned, producer, pathsChan, sorter,
                   sorterErrs, consumer>>

\* case err, ok := <-sorterErrs
MergerRecvSorter ==
    /\ merger.pc = "select" /\ merger.sorterErrs
    /\ sorterErrs.buf # <<>> \/ sorterErrs.closed
    /\ IF sorterErrs.buf # <<>>
       THEN /\ mergedErrs' = Close(Send(mergedErrs, Head(sorterErrs.buf)))
            /\ sorterErrs' = Receive(sorterErrs)
            /\ merger' = [merger EXCEPT !.pc = "done"]
       ELSE /\ merger' = [merger EXCEPT
                             !.sorterErrs = FALSE,
                             !.pc = IF merger.extErrs THEN "select"
                                    ELSE "done"]
            /\ mergedErrs' = IF merger.extErrs THEN mergedErrs
                             ELSE Close(mergedErrs)
            /\ UNCHANGED sorterErrs
    /\ UNCHANGED <<opVars, call, returned, producer, pathsChan, errsChan,
                   sorter, consumer>>

\* the receiver gives up: Diff returns, on a failure of its other stream or
\* of its callback, without receiving what is left of this stream
ConsumerStops ==
    /\ consumer.receiving
    /\ consumer' = [consumer EXCEPT !.receiving = FALSE]
    /\ UNCHANGED <<opVars, call, returned, producer, pathsChan, errsChan,
                   sorter, sorterErrs, merger, mergedErrs>>

ProducerStep == ProducerOpen \/ ProducerCheck \/ ProducerSend
SorterStep ==
    SorterPull \/ SorterInputClosed \/ SorterEmit \/ SorterFinish
        \/ SorterCancelled
MergerStep == MergerRecvExt \/ MergerRecvSorter

StreamNext ==
    \/ Cancel
    \/ ProducerOpen \/ ProducerCheck \/ ProducerSend
    \/ SorterPull \/ SorterInputClosed \/ SorterEmit \/ SorterFinish
    \/ SorterCancelled \/ SorterFails
    \/ MergerRecvExt \/ MergerRecvSorter
    \/ ConsumerStops

\* every goroutine that can take a step takes one in the end
StreamSpec ==
    /\ InitStream /\ [][StreamNext]_vars
    /\ WF_vars(ProducerStep) /\ WF_vars(SorterStep) /\ WF_vars(MergerStep)

----------------------------------------------------------------------------
(* List on its path stream, channel by channel (list.go, util.go) *)

\* the variables of an operation that the loops of List leave alone
listFrame ==
    <<op, cancelled, excludes, extSortConfig, input, cmpOld, cmpNew, sort,
      outExists, archive, walk, origin, paths, oldStream, newStream, result,
      gzipConfig, cancelAt, exited, exitCode, tmpFiles, writerVars,
      treeVars>>

\* paths, errs := prog.tarPathStream(ctx, input, sort, nil): the reader is
\* started, and with sort = true the sorter and the merger as well
InitListStream ==
    /\ op = "list"
    /\ excludes = <<>>
    /\ gzipConfig = NoGzipConfig
    /\ extSortConfig = extSortConfigDefault
    /\ cmpOld = NoSource /\ cmpNew = NoSource
    /\ sort \in BOOLEAN
    /\ pc = "paths"
    /\ cancelled = FALSE
    /\ outExists = FALSE
    /\ archive = <<>>
    /\ stdout = <<>>
    /\ walk = <<>>
    /\ origin = NoOrigin
    /\ paths = NoStream
    /\ oldStream = NoStream
    /\ newStream = NoStream
    /\ result = NoResult
    /\ ret = "pending"
    /\ cancelAt = "none"
    /\ exited = FALSE
    /\ exitCode = 0
    /\ tmpFiles = NoTempFiles
    /\ call = NoCall /\ returned = NoReturn
    /\ NoWriter
    /\ NoTree
    /\ \E names \in StreamInputs :
          /\ input = TarSource(names)
          /\ producer = [pc |-> "open", rest |-> names, item |-> <<>>]
    /\ pathsChan = NoChan /\ errsChan = NoChan
    /\ sorter = [pc |-> IF sort THEN "read" ELSE "none", buf |-> <<>>,
                 out |-> <<>>]
    /\ sorterErrs = NoChan
    /\ merger = [pc |-> IF sort THEN "select" ELSE "none", extErrs |-> sort,
                 sorterErrs |-> sort]
    /\ mergedErrs = NoChan
    /\ consumer = [got |-> <<>>, receiving |-> TRUE]

\* the error channel List was handed
ListErrs == IF sort THEN mergedErrs ELSE errsChan

\* for path := range paths { fmt.Fprintln(prog.stdout, path) }: one record is
\* received, from the sorter's output or from the reader's channel, and
\* printed
ListRangePaths ==
    /\ op = "list" /\ pc = "paths"
    /\ IF sort
       THEN /\ sorter.pc = "merge" /\ sorter.out # <<>>
            /\ stdout' = Append(stdout, Head(sorter.out))
            /\ sorter' = [sorter EXCEPT !.out = Tail(@)]
            /\ UNCHANGED pathsChan
       ELSE /\ pathsChan.buf # <<>>
            /\ stdout' = Append(stdout, Head(pathsChan.buf))
            /\ pathsChan' = Receive(pathsChan)
            /\ UNCHANGED sorter
    /\ consumer' = [consumer EXCEPT !.got = stdout']
    /\ UNCHANGED <<pc, ret, listFrame, call, returned, producer, errsChan,
                   sorterErrs, merger, mergedErrs>>

\* the range over paths ends: the channel is closed and empty
ListPathsClosed ==
    /\ op = "list" /\ pc = "paths"
    /\ IF sort THEN sorter.pc \in {"done", "stopped"}
       ELSE pathsChan.closed /\ pathsChan.buf = <<>>
    /\ pc' = "errs"
    /\ UNCHANGED <<ret, stdout, listFrame, auxVars>>

\* a variant that receives an error and goes on with its loop
ListRangeErrs_ignores ==
    /\ op = "list" /\ pc = "errs"
    /\ ListErrs.buf # <<>>
    /\ IF sort
       THEN mergedErrs' = Receive(mergedErrs) /\ UNCHANGED errsChan
       ELSE errsChan' = Receive(errsChan) /\ UNCHANGED mergedErrs
    /\ UNCHANGED <<pc, ret, stdout, listFrame, call, returned, producer,
                   pathsChan, sorter, sorterErrs, merger, consumer>>

\* for err := range errs { if err != nil { return ... } }: an error is
\* received and returned
ListRangeErrs ==
    /\ op = "list" /\ pc = "errs"
    /\ ListErrs.buf # <<>>
    /\ ret' = Head(ListErrs.buf)
    /\ pc' = "done"
    /\ IF sort
       THEN mergedErrs' = Receive(mergedErrs) /\ UNCHANGED errsChan
       ELSE errsChan' = Receive(errsChan) /\ UNCHANGED mergedErrs
    /\ UNCHANGED <<stdout, listFrame, call, returned, producer, pathsChan,
                   sorter, sorterErrs, merger, consumer>>

\* the range over errs ends: return nil
ListErrsClosed ==
    /\ op = "list" /\ pc = "errs"
    /\ ListErrs.closed /\ ListErrs.buf = <<>>
    /\ ret' = "nil"
    /\ pc' = "done"
    /\ UNCHANGED <<stdout, listFrame, auxVars>>

ListStep ==
    ListRangePaths \/ ListPathsClosed \/ ListRangeErrs \/ ListErrsClosed

\* the steps the sorter takes on its own; its hand-over of a record is the
\* receive of List
ListSorterStep ==
    SorterPull \/ SorterInputClosed \/ SorterFinish \/ SorterCancelled

ListStreamNext ==
    \/ Cancel
    \/ ProducerOpen \/ ProducerCheck \/ ProducerSend
    \/ SorterPull \/ SorterInputClosed \/ SorterFinish
    \/ SorterCancelled \/ SorterFails
    \/ MergerRecvExt \/ MergerRecvSorter
    \/ ListRangePaths \/ ListPathsClosed \/ ListRangeErrs \/ ListErrsClosed

\* List and the goroutines of its stream: each takes a step in the end when
\* it can
ListStreamSpec ==
    /\ InitListStream /\ [][ListStreamNext]_vars
    /\ WF_vars(ProducerStep) /\ WF_vars(ListSorterStep)
    /\ WF_vars(MergerStep) /\ WF_vars(ListStep)

----------------------------------------------------------------------------
(* Create and Diff call by call: the output, the writers and the deferred *)
(* calls (create.go, diff.go)                                              *)

\* a call and whether it returned without an error
Called(fn, ok) == [fn |-> fn, ok |-> ok]

\* a variant that runs the deferred calls in the order they were deferred
Defer_queue(stack, fn) == Append(stack, fn)

\* defer fn(): the call deferred last runs first
Defer(stack, fn) == <<fn>> \o stack

\* creationDone (Create) and hasDifferences (Diff) as the deferred function
\* finds them: set right before the one return that keeps the output
keepOutput ==
    \/ op = "create" /\ ret = "nil"
    \/ op = "diff" /\ ret = "ErrDiffsFound"

\* tar headers written so far
HeadersWritten ==
    Len(SelectSeq(calls, LAMBDA c : c.fn = "tw.WriteHeader" /\ c.ok))

\* Create or Diff on an output path that may hold a file already
InitWriter ==
    /\ op \in {"create", "diff"}
    /\ outExists \in BOOLEAN
    /\ gzipConfig \in GzipConfigs
    /\ excludes = <<>>
    /\ extSortConfig = extSortConfigDefault
    /\ input = NoSource /\ cmpOld = NoSource /\ cmpNew = NoSource
    /\ sort = FALSE
    /\ pc = "start"
    /\ cancelled = FALSE
    /\ archive = <<>>
    /\ stdout = <<>>
    /\ walk = <<>>
    /\ origin = NoOrigin
    /\ paths = NoStream
    /\ oldStream = NoStream
    /\ newStream = NoStream
    /\ result = NoResult
    /\ ret = "pending"
    /\ cancelAt = "none"
    /\ exited = FALSE
    /\ exitCode = 0
    /\ tmpFiles = NoTempFiles
    /\ call = NoCall /\ returned = NoReturn
    /\ NoPipe
    /\ NoWriter
    /\ NoTree

\* what the steps of this section leave alone
writerFrame ==
    <<op, cancelled, excludes, extSortConfig, input, cmpOld, cmpNew, sort,
      archive, stdout, walk, origin, paths, oldStream, newStream, result,
      cancelAt, exited, exitCode, tmpFiles, call, returned, pipeVars,
      treeVars>>

\* a variant that defers the removal before it looks at the error of Create
WriterCreate_defersFirst ==
    /\ pc = "start"
    /\ \/ /\ calls' = Append(calls, Called("fs.Create", FALSE))
          /\ ret' = "create" /\ pc' = "unwind"
          /\ defers' = Defer(defers, "remove")
          /\ UNCHANGED outExists
       \/ /\ calls' = Append(calls, Called("fs.Create", TRUE))
          /\ outExists' = TRUE
          /\ defers' = Defer(Defer(defers, "remove"), "out.Close")
          /\ pc' = "gzip"
          /\ UNCHANGED ret
    /\ UNCHANGED <<gzipConfig, writerFrame>>

\* out, err := prog.fs.Create(output); on an error the operation returns
\* with nothing deferred; otherwise it defers the conditional removal and
\* out.Close()
WriterCreate ==
    /\ pc = "start"
    /\ \/ /\ calls' = Append(calls, Called("fs.Create", FALSE))
          /\ ret' = "create" /\ pc' = "done"
          /\ UNCHANGED <<outExists, defers>>
       \/ /\ calls' = Append(calls, Called("fs.Create", TRUE))
          /\ outExists' = TRUE
          /\ defers' = Defer(Defer(defers, "remove"), "out.Close")
          /\ pc' = "gzip"
          /\ UNCHANGED ret
    /\ UNCHANGED <<gzipConfig, writerFrame>>

\* NewWriterLevel; defer gw.Close(); SetConcurrency (Create only);
\* tar.NewWriter; defer tw.Close()
WriterGzip ==
    /\ pc = "gzip"
    /\ IF ~ValidLevel(gzipConfig.level)
       THEN /\ ret' = "gzip writer" /\ pc' = "unwind"
            /\ UNCHANGED defers
       ELSE IF op = "create" /\ ~ValidConcurrency(gzipConfig)
       THEN /\ ret' = "gzip settings" /\ pc' = "unwind"
            /\ defers' = Defer(defers, "gw.Close")
       ELSE /\ defers' = Defer(Defer(defers, "gw.Close"), "tw.Close")
            /\ pc' = "source"
            /\ UNCHANGED ret
    /\ UNCHANGED <<outExists, calls, gzipConfig, writerFrame>>

\* prog.fsWalker.WalkDir(input, ...) of Create, and the two calls of
\* prog.multiPathStream of Diff, either of which may fail in Stat
WriterSource ==
    /\ pc = "source"
    /\ IF op = "create"
       THEN /\ calls' = Append(calls, Called("WalkDir", TRUE))
            /\ pc' = "body"
            /\ UNCHANGED ret
       ELSE \/ /\ calls' = calls \o <<Called("multiPathStream", TRUE),
                                       Called("multiPathStream", TRUE)>>
               /\ pc' = "body"
               /\ UNCHANGED ret
            \/ /\ calls' = Append(calls, Called("multiPathStream", FALSE))
               /\ ret' = "stat" /\ pc' = "unwind"
            \/ /\ calls' = calls \o <<Called("multiPathStream", TRUE),
                                       Called("multiPathStream", FALSE)>>
               /\ ret' = "stat" /\ pc' = "unwind"
    /\ UNCHANGED <<outExists, defers, gzipConfig, writerFrame>>

\* writeDummyFile(tw, ...) in the callback of the walk or of the merge: the
\* header is written, or the write fails and ends the operation
WriterHeader ==
    /\ pc = "body"
    /\ HeadersWritten < MaxEntries
    /\ \/ /\ calls' = Append(calls, Called("tw.WriteHeader", TRUE))
          /\ UNCHANGED <<pc, ret>>
       \/ /\ calls' = Append(calls, Called("tw.WriteHeader", FALSE))
          /\ ret' = "write" /\ pc' = "unwind"
    /\ UNCHANGED <<outExists, defers, gzipConfig, writerFrame>>

\* the walk or the merge ends with an error of its own: of the walker, of
\* a pattern, of a stream, or the cancellation
WriterFails ==
    /\ pc = "body"
    /\ ret' \in (IF cancelled THEN {"canceled"} ELSE {"walk", "pattern", "tar"})
    /\ pc' = "unwind"
    /\ UNCHANGED <<outExists, calls, defers, gzipConfig, writerFrame>>

\* the walk or the merge ends without an error: creationDone = true and
\* return nil; hasDifferences = true and return ErrDiffsFound if an event
\* was reported, return nil otherwise
WriterCompletes ==
    /\ pc = "body" /\ ~cancelled
    /\ ret' = IF op = "diff" /\ HeadersWritten > 0 THEN "ErrDiffsFound"
              ELSE "nil"
    /\ pc' = "unwind"
    /\ UNCHANGED <<outExists, calls, defers, gzipConfig, writerFrame>>

\* the next deferred call runs as the operation returns: a Close, whose
\* error nobody looks at, or the function that removes the output unless
\* the operation completed
WriterDeferred ==
    /\ pc = "unwind" /\ defers # <<>>
    /\ defers' = Tail(defers)
    /\ IF Head(defers) = "remove"
       THEN IF keepOutput THEN UNCHANGED <<calls, outExists>>
            ELSE /\ calls' = Append(calls, Called("fs.Remove", TRUE))
                 /\ outExists' = FALSE
       ELSE /\ \E ok \in BOOLEAN :
                  calls' = Append(calls, Called(Head(defers), ok))
            /\ UNCHANGED outExists
    /\ UNCHANGED <<pc, ret, gzipConfig, writerFrame>>

\* the last deferred call has run: the operation has returned
WriterReturns ==
    /\ pc = "unwind" /\ defers = <<>>
    /\ pc' = "done"
    /\ UNCHANGED <<ret, outExists, calls, defers, gzipConfig, writerFrame>>

WriterNext ==
    \/ Cancel
    \/ WriterCreate \/ WriterGzip \/ WriterSource
    \/ WriterHeader \/ WriterFails \/ WriterCompletes
    \/ WriterDeferred \/ WriterReturns

WriterSpec == InitWriter /\ [][WriterNext]_vars

----------------------------------------------------------------------------
(* Vocabulary of the properties *)

Range(s) == {s[i] : i \in DOMAIN s}

\* how often x occurs in s
Count(s, x) == Cardinality({i \in DOMAIN s : s[i] = x})

\* the same records, each as often, in whatever order
SameBag(s, t) ==
    \A x \in Range(s) \cup Range(t) : Count(s, x) = Count(t, x)

NonDecreasing(s) ==
    \A i \in DOMAIN s : i < Len(s) => StrLeq(s[i], s[i + 1])

\* Diff has returned / has returned without a failure
DiffDone == op = "diff" /\ pc = "done"
DiffCompleted == DiffDone /\ ret \in {"nil", "ErrDiffsFound"}

\* the records the two producers of a Diff sent
OldPaths == oldStream.in
NewPaths == newStream.in

----------------------------------------------------------------------------
(* Properties of Diff's outcome *)

\* C1, as stated: a Diff that completes on two sources whose sets of
\* non-excluded paths are equal reports nothing, returns nil and leaves no
\* output file.
C1_EqualSetsNoEvents ==
    (DiffCompleted /\ Range(OldPaths) = Range(NewPaths))
        => (stdout = <<>> /\ ret = "nil" /\ ~outExists)

\* C1, amended: a Diff that completes on two sources that send the same
\* non-excluded records, each as often (any source against itself does),
\* never invokes the delta callback, returns nil and leaves no output file.
C1_EqualBagsNoEvents ==
    (DiffCompleted /\ SameBag(OldPaths, NewPaths))
        => (stdout = <<>> /\ archive = <<>> /\ result = NoResult
            /\ ret = "nil" /\ ~outExists)

\* two different sources holding the same two records in different orders
\* were compared to the end
C1_Witness ==
    /\ DiffCompleted
    /\ cmpOld # cmpNew
    /\ Len(OldPaths) >= 2
    /\ OldPaths # NewPaths
    /\ SameBag(OldPaths, NewPaths)

RECURSIVE SumOver(_, _)
\* the sum of f over the finite set S
SumOver(S, f) ==
    IF S = {} THEN 0
    ELSE LET x == CHOOSE y \in S : TRUE IN f[x] + SumOver(S \ {x}, f)

\* the records of s left over when each record of t cancels one equal to it
BagExtra(s, t) ==
    SumOver(Range(s),
            [x \in Range(s) |->
                IF Count(s, x) > Count(t, x) THEN Count(s, x) - Count(t, x)
                ELSE 0])

NoRepeat(s) == \A x \in Range(s) : Count(s, x) = 1

\* the mark and the path of a line Diff printed
LineMark(line) == SubSeq(line, 1, 3)
LineItem(line) == SubSeq(line, 5, Len(line))
OldMark == <<"-", "-", "-">>
NewMark == <<"+", "+", "+">>
Printed(mark) == {LineItem(l) : l \in {x \in Range(stdout) : LineMark(x) = mark}}

\* C4, as stated: a Diff that completes counts ExtraA = |paths(A) \ paths(B)|
\* and ExtraB = |paths(B) \ paths(A)| whatever records the two sources sent,
\* and reports no path that is on both sides.
C4_CountsAreSetDifferences ==
    DiffCompleted =>
        /\ result.ExtraA = Cardinality(Range(OldPaths) \ Range(NewPaths))
        /\ result.ExtraB = Cardinality(Range(NewPaths) \ Range(OldPaths))
        /\ \A l \in Range(stdout) :
               LineItem(l) \notin Range(OldPaths) \cap Range(NewPaths)

\* C4, amended: a Diff that completes counts in ExtraA the records of A left
\* over when each record of B cancels one equal record of A, and in ExtraB
\* the same with the sides swapped; a path that is as often on both sides is
\* never reported; and when neither side repeats a name the counts are the
\* sizes of the set differences and no path on both sides is reported.
C4_CountsAreBagDifferences ==
    DiffCompleted =>
        /\ result.ExtraA = BagExtra(OldPaths, NewPaths)
        /\ result.ExtraB = BagExtra(NewPaths, OldPaths)
        /\ \A l \in Range(stdout) :
               Count(OldPaths, LineItem(l)) # Count(NewPaths, LineItem(l))
        /\ (NoRepeat(OldPaths) /\ NoRepeat(NewPaths)) => C4_CountsAreSetDifferences

\* a Diff completed on an old side that has a name twice and a new side that
\* has it once
C4_Witness ==
    /\ DiffCompleted
    /\ \E x \in Range(NewPaths) : Count(OldPaths, x) > Count(NewPaths, x)
    /\ result.ExtraA > 0

\* the events diff.Strings reports when Diff is run with its two sources
\* swapped and nothing fails
SwappedEvents ==
    LET open(src) ==
            multiPathStream(src, TRUE, excludes, FALSE, NoFault, extSortConfig,
                CHOOSE o \in RunOrders(Producer(src, excludes, FALSE,
                                                NoFault).in,
                                       extSortConfig) : TRUE).out
    IN DiffEvents(open(cmpNew), open(cmpOld))

EventItems(events, delta) ==
    {events[i].item : i \in {j \in DOMAIN events : events[j].delta = delta}}

EventCount(events, delta) ==
    Cardinality({j \in DOMAIN events : events[j].delta = delta})

\* C5: the paths a completed Diff of (A, B) reports as OLD are the paths
\* Diff of (B, A) reports as NEW, and the other way round, and ExtraA and
\* ExtraB are swapped.
C5_Symmetry ==
    DiffCompleted =>
        /\ Printed(OldMark) = EventItems(SwappedEvents, "NEW")
        /\ Printed(NewMark) = EventItems(SwappedEvents, "OLD")
        /\ result.ExtraA = EventCount(SwappedEvents, "NEW")
        /\ result.ExtraB = EventCount(SwappedEvents, "OLD")

\* a Diff completed with a removal and an addition
C5_Witness ==
    /\ DiffCompleted
    /\ result.ExtraA > 0 /\ result.ExtraB > 0
    /\ Printed(OldMark) # Printed(NewMark)

----------------------------------------------------------------------------
(* Properties of Create, List and the producers *)

\* List has returned nil
ListCompleted == op = "list" /\ pc = "done" /\ ret = "nil"

\* the exclude list matches the node
Matched(n, excl) == isExcluded(n.rel, n.dir, excl) = "true"

\* the nodes neither matched nor beneath a matched directory
Kept(tree, excl) ==
    {n \in tree :
        /\ ~Matched(n, excl)
        /\ \A d \in tree : (d.dir /\ Beneath(d, n)) => ~Matched(d, excl)}

\* a node's path relative to the root, a directory's with a trailing slash
RecordOf(n) == IF n.dir THEN n.rel \o <<"/">> ELSE n.rel

\* C6: when Create of a tree with exclude list E returns nil and List with
\* sort=true of the archive it made returns nil, List has printed, in
\* non-decreasing byte order and each once, exactly the root-relative paths
\* of the nodes that E does not match and that are not beneath a directory E
\* matches, directories with a trailing "/".
C6_RoundTrip ==
    (ListCompleted /\ origin.made /\ sort) =>
        LET expected == {RecordOf(n) : n \in Kept(origin.tree, origin.excludes)}
        IN /\ Range(stdout) = expected
           /\ Len(stdout) = Cardinality(expected)
           /\ NonDecreasing(stdout)

\* a tree of three nodes, one of them excluded, went through Create and a
\* sorted List
C6_Witness ==
    /\ ListCompleted /\ origin.made /\ sort
    /\ Cardinality(origin.tree) = 3
    /\ Len(stdout) = 2

\* the exclude list matches the record (a directory's ends in "/")
Excluded(p, excl) == isExcluded(p, HasSuffixSlash(p), excl) = "true"

\* the node of Create's root that has the walked path `line`
NodeAt(line) == CHOOSE n \in input.tree : FullPath(n) = line

\* the path inside a "---/p" or "+++/p" entry of the delta archive
EntryItem(name) == SubSeq(name, 5, Len(name))

\* C7: no path the exclude list matches is sent by a producer, written to
\* the archive, reported as a Diff event or printed.
C7_NothingExcludedGetsOut ==
    /\ \A st \in {paths, oldStream, newStream} :
          \A p \in Range(st.in) \cup Range(st.out) : ~Excluded(p, excludes)
    /\ op = "create" =>
          /\ \A h \in Range(archive) : ~Excluded(h.name, excludes)
          /\ \A l \in Range(stdout) : ~Matched(NodeAt(l), excludes)
    /\ op = "diff" =>
          /\ \A h \in Range(archive) : ~Excluded(EntryItem(h.name), excludes)
          /\ \A l \in Range(stdout) : ~Excluded(LineItem(l), excludes)
    /\ op = "list" =>
          \A l \in Range(stdout) :
              ~Excluded(l, excludes) /\ ~Excluded(l, origin.excludes)

\* a Diff reported a difference between an archive holding an excluded name
\* and another source
C7_Witness ==
    /\ DiffCompleted
    /\ stdout # <<>>
    /\ cmpOld.kind = "tar"
    /\ \E i \in DOMAIN cmpOld.names : Excluded(cmpOld.names[i], excludes)

\* C8, as stated: the lines Create has printed are the names of the archive
\* entries it has written, in the same order.
C8_StdoutIsEntryNames ==
    op = "create" => stdout = HeaderNames(archive)

\* C9: when List returns nil it has printed the header names of the archive
\* unchanged: in the archive's order with sort=false, and as a non-decreasing
\* rearrangement of them with sort=true; the archive a Create made reads
\* back with the names the writer was handed.
C9_ListVerbatim ==
    /\ ListCompleted =>
          /\ paths.in = input.names
          /\ ~sort => stdout = input.names
          /\ sort => (SameBag(stdout, input.names) /\ NonDecreasing(stdout))
    /\ (op = "list" /\ origin.made) => input.names = HeaderNames(archive)

\* an archive of two entries that are not in byte order was listed unsorted
C9_Witness ==
    /\ ListCompleted /\ ~sort
    /\ Len(stdout) = 2
    /\ StrLess(stdout[2], stdout[1])
    /\ HasSuffixSlash(stdout[1])

\* a sorted stream from which nothing has been received yet
FreshSorted ==
    (IF op = "list" /\ pc = "print" /\ sort /\ stdout = <<>>
     THEN {paths} ELSE {})
    \cup (IF op = "diff" /\ pc = "openNew" THEN {oldStream} ELSE {})

\* C10: when no error and no cancellation occurs, the sorted stream is a
\* rearrangement of the records the producer sent, in non-decreasing byte
\* order, whatever the chunk size and the number of workers.
C10_SortedPermutation ==
    \A st \in FreshSorted :
        (st.err = "none" /\ ~cancelled) =>
            (SameBag(st.out, st.in) /\ NonDecreasing(st.out))

\* List is about to print a sorted stream of more records than a chunk
\* holds, sent out of order, sorted by two workers
C10_Witness ==
    /\ op = "list" /\ pc = "print" /\ sort /\ stdout = <<>>
    /\ paths.err = "none" /\ ~cancelled
    /\ Len(paths.in) > extSortConfig.chunk
    /\ extSortConfig.workers = 2
    /\ ~NonDecreasing(paths.in)

----------------------------------------------------------------------------
(* Order within a sorted stream *)

StrictlyIncreasing(s) ==
    \A i \in DOMAIN s : i < Len(s) => StrLess(s[i], s[i + 1])

\* C11, as stated: no two consecutive records of a sorted path stream are
\* equal, whatever source the stream is built from.
C11_StrictlyMonotonic ==
    \A st \in FreshSorted : StrictlyIncreasing(st.out)

\* C11, amended: a sorted path stream is in non-decreasing byte order; it is
\* strictly increasing when its producer sent no record twice, which is so
\* for every directory source; an archive that repeats a header name yields
\* equal consecutive records.
C11_MonotonicStrictWithoutRepeats ==
    /\ \A st \in FreshSorted :
          /\ NonDecreasing(st.out)
          /\ NoRepeat(st.in) => StrictlyIncreasing(st.out)
    /\ (op = "diff" /\ pc = "openNew" /\ cmpOld.kind = "dir")
          => StrictlyIncreasing(oldStream.out)

\* Diff has opened the sorted stream of a directory of three entries that
\* the walker sent in another order
C11_Witness ==
    /\ op = "diff" /\ pc = "openNew"
    /\ cmpOld.kind = "dir"
    /\ Len(oldStream.out) = 3
    /\ oldStream.out # oldStream.in

----------------------------------------------------------------------------
(* Cancellation *)

\* the operation has returned
Returned == pc = "done"

\* it returned without an error other than ErrDiffsFound
Succeeded == Returned /\ ret \in {"nil", "ErrDiffsFound"}

\* the failures an operation reports before it first looks at the context
EarlyFailures ==
    IF op = "create" THEN {"create", "gzip writer", "gzip settings"}
    ELSE IF op = "diff" THEN {"create", "gzip writer", "stat", "open"}
    ELSE {"open"}

CancelOutcome ==
    /\ (Returned /\ cancelAt = "start") =>
          /\ ret = "canceled" \/ ret \in EarlyFailures
          /\ stdout = <<>>
          /\ op \in {"create", "diff"} => archive = <<>>
    /\ (Returned /\ ret = "canceled") =>
          (cancelled /\ (op \in {"create", "diff"} => ~outExists))

----------------------------------------------------------------------------
(* The exit code *)

\* C13, as stated: the process exits with 0 if and only if the command
\* returned no error, with 1 if and only if it returned ErrDiffsFound, with 2
\* for every other error, and always with 2 after a cancellation.
C13_ExitCodeFollowsError ==
    exited =>
        /\ (exitCode = exitCodeSuccess) <=> (ret = "nil")
        /\ (exitCode = exitCodeDiffsFound) <=> (ret = "ErrDiffsFound")
        /\ cancelled => exitCode = exitCodeFailure

\* C13, amended: when main has taken no signal, the process exits with 0 if
\* and only if the command returned no error, with 1 if and only if it
\* returned ErrDiffsFound (which only diff does), and with 2 for every other
\* error; once main has taken a signal and cancelled the context it exits
\* with 2 whatever the command returns, and also when the command has not
\* returned in time.
C13_ExitCodeUnlessInterrupted ==
    exited =>
        /\ cancelled => exitCode = exitCodeFailure
        /\ ~cancelled =>
              /\ Returned
              /\ (exitCode = exitCodeSuccess) <=> (ret = "nil")
              /\ (exitCode = exitCodeDiffsFound) <=> (ret = "ErrDiffsFound")
              /\ (exitCode = exitCodeFailure) <=> ~Succeeded
        /\ exitCode = exitCodeDiffsFound => op = "diff"
        /\ exitCode \in {exitCodeSuccess, exitCodeDiffsFound, exitCodeFailure}

\* a Create that was cancelled too late returned nil, and main exited with 2
C13_Witness ==
    /\ exited
    /\ op = "create" /\ Returned /\ ret = "nil"
    /\ cancelled
    /\ exitCode = exitCodeFailure

----------------------------------------------------------------------------
(* Invalid exclude patterns *)

\* the list holds a malformed pattern
HasInvalid(excl) ==
    \E i \in DOMAIN excl :
        ~ValidPattern(TrimPrefixSlash(TrimSuffixSlash(ToSlash(excl[i]))))

\* the paths of a source that isExcluded is asked about when nothing fails:
\* every header name of an archive, every node of a tree that is not beneath
\* a matched directory
Asked(src, excl) ==
    IF src.kind = "dir"
    THEN {[path |-> n.rel, isDir |-> n.dir] :
            n \in {k \in src.tree :
                     \A d \in src.tree :
                         (d.dir /\ Beneath(d, k)) => ~Matched(d, excl)}}
    ELSE {[path |-> src.names[i], isDir |-> HasSuffixSlash(src.names[i])] :
            i \in DOMAIN src.names}

\* isExcluded gets to the malformed pattern for some path of the source
ReachesInvalid(src, excl) ==
    \E a \in Asked(src, excl) : isExcluded(a.path, a.isDir, excl) = "error"

\* the sources of the running Create or Diff
Sources == IF op = "create" THEN {input} ELSE {cmpOld, cmpNew}

\* C14, as stated (with any failure taken for the pattern error): with a
\* malformed pattern anywhere in the exclude list, Create and Diff fail for
\* every input.
C14_InvalidPatternAlwaysFails ==
    (op \in {"create", "diff"} /\ Returned /\ HasInvalid(excludes))
        => ~Succeeded

\* C14, what the code does hold to: with a malformed pattern in the exclude
\* list no path is sent by a stream, no entry is written and no line printed
\* by Create or Diff; the operation fails whenever isExcluded gets to the
\* malformed pattern for some path it is asked about, and a stream that
\* reports the pattern error has sent nothing.  When no path gets there (the
\* source is empty, or every path asked about is matched by an earlier
\* pattern) the malformed pattern goes unnoticed.
C14_InvalidPatternFailsWhenReached ==
    /\ \A st \in {paths, oldStream, newStream} :
          st.err = "pattern" => (HasInvalid(excludes) /\ st.in = <<>>)
    /\ (op \in {"create", "diff"} /\ HasInvalid(excludes)) =>
          /\ archive = <<>> /\ stdout = <<>>
          /\ \A st \in {oldStream, newStream} : st.in = <<>>
          /\ Succeeded =>
                \A src \in Sources : ~ReachesInvalid(src, excludes)
    /\ (op \in {"create", "diff"} /\ Returned /\ ret = "pattern") =>
          \E src \in Sources : ReachesInvalid(src, excludes)

\* Create returned nil on a tree that is not empty although the exclude list
\* holds a malformed pattern
C14_Witness ==
    /\ op = "create" /\ Returned /\ ret = "nil"
    /\ HasInvalid(excludes)
    /\ input.tree # {}

----------------------------------------------------------------------------
(* Compressor configuration *)

\* the step of Create or Diff that sets up the compressor
GzipStep == op \in {"create", "diff"} /\ pc = "gzip" /\ pc' # "gzip"

\* the step ends the operation with the compressor's error, nothing
\* written and the output removed
GzipRejected ==
    /\ pc' = "done"
    /\ ret' \in {"gzip writer", "gzip settings"}
    /\ ~outExists'
    /\ archive' = <<>> /\ stdout' = <<>>

\* C15, as stated: a negative compression level, or for Create a negative
\* block size, makes the operation return an error before anything is
\* written, and the output file does not exist afterwards.
C15_NegativeConfigRejected ==
    [][(GzipStep /\ (gzipConfig.level < 0 \/
                     (op = "create" /\ gzipConfig.blockSize < 0)))
          => GzipRejected]_vars

\* C15, what the code does hold to: the operation ends at the compressor
\* set-up, with nothing written and the output removed, exactly when the
\* level is outside -2..9 or, for Create, the block size is at most 16384 or
\* the block count is not positive.  The levels -1 and -2 are taken.
C15_IllegalConfigRejected ==
    [][GzipStep =>
          (GzipRejected <=>
              (\/ ~ValidLevel(gzipConfig.level)
               \/ (op = "create" /\ ~ValidConcurrency(gzipConfig))))]_vars

----------------------------------------------------------------------------
(* Excludes on the two kinds of source *)

\* the archive holds exactly the paths of the tree, each once
ArchiveOf(src, dir) ==
    /\ src.kind = "tar" /\ dir.kind = "dir"
    /\ NoRepeat(src.names)
    /\ Range(src.names) = {RecordOf(n) : n \in dir.tree}

\* C16, as stated: Diff of a directory against an archive that holds all
\* paths of that directory reports no difference, whatever the exclude list.
C16_ExcludesAlikeOnBothKinds ==
    (DiffCompleted /\ (ArchiveOf(cmpNew, cmpOld) \/ ArchiveOf(cmpOld, cmpNew)))
        => (stdout = <<>> /\ ret = "nil")

\* a Diff of a directory against its own archive that found a difference
C16_Witness ==
    /\ DiffCompleted
    /\ ArchiveOf(cmpNew, cmpOld)
    /\ ret = "ErrDiffsFound"

----------------------------------------------------------------------------
(* The archive Create writes, as a function of the tree and the excludes *)

RECURSIVE ElementsLess(_, _)
\* element by element, an ancestor before what is beneath it
ElementsLess(es, fs) ==
    IF es = <<>> THEN fs # <<>>
    ELSE IF fs = <<>> THEN FALSE
    ELSE IF es[1] = fs[1] THEN ElementsLess(Tail(es), Tail(fs))
    ELSE StrLess(es[1], fs[1])

\* a comes before b in a lexical pre-order walk
WalkedBefore(a, b) == ElementsLess(Elements(a.rel), Elements(b.rel))

RECURSIVE InWalkOrder(_)
InWalkOrder(S) ==
    IF S = {} THEN <<>>
    ELSE LET m == CHOOSE x \in S : \A y \in S \ {x} : WalkedBefore(x, y)
         IN <<m>> \o InWalkOrder(S \ {m})

\* the header of a node
HeaderOf(n) ==
    [name     |-> RecordOf(n),
     typeflag |-> IF n.dir THEN "dir" ELSE "reg",
     mode     |-> IF n.dir THEN 511 ELSE 438,
     size |-> 0, mtime |-> 0]

\* one header for each node that is neither matched nor beneath a matched
\* directory, in walk order
ExpectedArchive(tree, excl) ==
    LET kept == InWalkOrder(Kept(tree, excl))
    IN [i \in DOMAIN kept |-> HeaderOf(kept[i])]

\* s is the beginning of t
IsPrefix(s, t) == Len(s) <= Len(t) /\ s = SubSeq(t, 1, Len(s))

\* C17: the sequence of entries (name, typeflag, mode, size 0, mtime 0) of
\* an archive Create completed is a function of the tree and the exclude
\* list alone, so two runs over the same tree with the same excludes write
\* the same entries in the same order, whatever the compressor
\* configuration and whenever a cancellation arrives; while Create runs,
\* and when it fails, what it has written is a beginning of that sequence.
C17_ArchiveDetermined ==
    op = "create" =>
        /\ IsPrefix(archive, ExpectedArchive(input.tree, excludes))
        /\ (Returned /\ ret = "nil") =>
              archive = ExpectedArchive(input.tree, excludes)

\* Create completed an archive of two entries or more from a tree of which
\* the exclude list took something out
C17_Witness ==
    /\ op = "create" /\ Returned /\ ret = "nil"
    /\ Len(archive) >= 2
    /\ Kept(input.tree, excludes) # input.tree

----------------------------------------------------------------------------
(* Entries of the archives written *)

\* a directory entry: typeflag directory, mode 0o777, a trailing slash
DirEntry(h) ==
    h.typeflag = "dir" /\ h.mode = 511 /\ HasSuffixSlash(h.name)

\* a regular entry: typeflag regular, mode 0o666, no trailing slash
RegEntry(h) ==
    h.typeflag = "reg" /\ h.mode = 438 /\ ~HasSuffixSlash(h.name)

\* C20: every entry Create or Diff has written has size 0 and mtime zero
\* and is either a directory entry (typeflag directory, mode 0o777, name
\* ending in "/") or a regular entry (typeflag regular, mode 0o666, name not
\* ending in "/").
C20_EntriesAreDummies ==
    \A i \in DOMAIN archive :
        /\ archive[i].size = 0 /\ archive[i].mtime = 0
        /\ DirEntry(archive[i]) \/ RegEntry(archive[i])

\* Diff has written a directory entry and a regular entry
C20_Witness ==
    /\ op = "diff"
    /\ \E i, j \in DOMAIN archive :
          DirEntry(archive[i]) /\ RegEntry(archive[j])

----------------------------------------------------------------------------
(* Temporary files of the sorter *)

\* the sorter's temporary files on disk
TempFiles == tmpFiles.paths + tmpFiles.old + tmpFiles.new

\* C18, as stated: when Diff or List has returned, no temporary file of a
\* sorter exists.
C18_NoTempFilesAfterReturn ==
    (op \in {"diff", "list"} /\ Returned) => TempFiles = 0

\* Diff has returned, uncancelled, because its second source does not
\* exist, and the sorter of the first stream has its files on disk
C18_Witness ==
    /\ op = "diff" /\ Returned /\ ~cancelled
    /\ ret = "stat"
    /\ tmpFiles.old > 0

----------------------------------------------------------------------------
(* Layout of the delta archive *)

\* the records the producer on the side of a mark sent
SentOn(mark) == IF mark = OldMark THEN Range(OldPaths) ELSE Range(NewPaths)

\* the elements of a path that are not "."
NamedElements(p) == SelectSeq(Elements(p), LAMBDA e : e # <<".">>)

\* the i-th event of a Diff: the line printed and the entry written for it
EventLine(i) == stdout[i]
EventEntry(i) == archive[i]

----------------------------------------------------------------------------
(* Merging of the exclude arguments *)

\* the lines of a file that are patterns: trimmed of white space, neither
\* empty nor beginning with "#"
PatternLines(lines) ==
    LET trimmed == [i \in DOMAIN lines |-> TrimSpace(lines[i])]
    IN SelectSeq(trimmed, LAMBDA l : l # <<>> /\ l[1] # "#")

\* mergeExcludes has returned a list
Merged == call.fn = "mergeExcludes" /\ returned.err = "nil"

\* C21, as stated: the merged list is the inline arguments followed by the
\* lines of the file, comment lines and blank lines dropped.
C21_InlineThenFile ==
    Merged =>
        returned.value =
            call.excludeSlice \o PatternLines(call.excludeFile.lines)

\* C21, amended: the merged list is the lines of the file, trimmed of white
\* space and with the blank lines and the lines beginning with "#" dropped,
\* followed by the inline arguments; the call fails, with no list, when the
\* file cannot be opened or read.
C21_FileThenInline ==
    /\ Merged =>
          returned.value =
              PatternLines(call.excludeFile.lines) \o call.excludeSlice
    /\ (call.fn = "mergeExcludes" /\ returned # NoReturn) =>
          /\ returned.err = "nil" <=> call.excludeFile.kind \in {"none", "file"}
          /\ returned.err # "nil" => returned.value = <<>>

\* a file with a pattern line and a dropped line was merged with inline
\* arguments
C21_Witness ==
    /\ Merged
    /\ call.excludeSlice # <<>>
    /\ PatternLines(call.excludeFile.lines) # <<>>
    /\ Len(PatternLines(call.excludeFile.lines)) < Len(call.excludeFile.lines)

----------------------------------------------------------------------------
(* The exclude test *)

\* a pattern without one leading and one trailing "/"
Stripped(p) ==
    LET q == IF p # <<>> /\ p[Len(p)] = "/" THEN SubSeq(p, 1, Len(p) - 1) ELSE p
    IN IF q # <<>> /\ q[1] = "/" THEN Tail(q) ELSE q

\* the pattern is malformed
Malformed(p) == \E k \in DOMAIN Stripped(p) : Stripped(p)[k] = "["

\* the i-th pattern excludes the path: it matches the cleaned path and is
\* not a directory-only pattern held against a non-directory
Excludes(excl, i, path, isDir) ==
    /\ ~Malformed(excl[i])
    /\ GlobMatch(Stripped(excl[i]), Clean(path))
    /\ (excl[i][Len(excl[i])] = "/") => isDir

\* isExcluded has returned
ExcludedCalled == call.fn = "isExcluded" /\ returned # NoReturn

\* C22, as stated: isExcluded returns true exactly when some pattern of the
\* list, stripped of one leading and one trailing "/", matches the cleaned
\* path and either has no trailing "/" or isDir is true.
C22_TrueIffSomePatternExcludes ==
    ExcludedCalled =>
        (returned.value <=>
            \E i \in DOMAIN call.excludes :
                Excludes(call.excludes, i, call.path, call.isDir))

\* C22, amended: isExcluded returns true exactly when some pattern of the
\* list, stripped of one leading and one trailing "/", matches the cleaned
\* path and either has no trailing "/" or isDir is true, and no pattern
\* before the first such pattern is malformed; it returns an error exactly
\* when a malformed pattern stands before every such pattern.  A pattern
\* with a trailing "/" alone never excludes a non-directory, and a pattern
\* after a directory-only pattern that was skipped still excludes.
C22_TrueIffExcludedBeforeMalformed ==
    ExcludedCalled =>
        LET excl == call.excludes
            hits == {i \in DOMAIN excl :
                        Excludes(excl, i, call.path, call.isDir)}
            bad  == {i \in DOMAIN excl : Malformed(excl[i])}
        IN /\ returned.value <=>
                 \E i \in hits : \A j \in bad : i < j
           /\ returned.err # "nil" <=>
                 \E j \in bad : \A i \in hits : j < i
           /\ returned.err # "nil" => ~returned.value

\* isExcluded returned true for a non-directory on a list whose first
\* pattern is a directory-only pattern that matches the path
C22_Witness ==
    /\ ExcludedCalled
    /\ returned.value /\ ~call.isDir
    /\ Len(call.excludes) = 2
    /\ call.excludes[1][Len(call.excludes[1])] = "/"
    /\ GlobMatch(Stripped(call.excludes[1]), Clean(call.path))

----------------------------------------------------------------------------
(* Pruning by the walker *)

\* the nodes of a tree beneath a directory the exclude list matches
Pruned(tree, excl) ==
    {n \in tree : \E d \in tree : d.dir /\ Matched(d, excl) /\ Beneath(d, n)}

\* the records the walker is to send for a tree: every node but the
\* matched ones and those beneath a matched directory
Unpruned(tree, excl) ==
    {RecordOf(n) :
        n \in {k \in tree : ~Matched(k, excl)} \ Pruned(tree, excl)}

\* the directory sources of a Diff and the records their walkers sent
WalkedSources ==
    {s \in {[src |-> cmpOld, in |-> oldStream.in],
            [src |-> cmpNew, in |-> newStream.in]} : s.src.kind = "dir"}

\* C23: the walker never sends or writes a directory the exclude list
\* matches nor any path beneath it, whether or not that path matches a
\* pattern itself; a matched file is left out alone: when the walk is
\* complete every other node, the file's parent and siblings among them,
\* has been sent or written.
C23_WalkerPrunes ==
    /\ op = "create" =>
          /\ Range(HeaderNames(archive)) \subseteq
                 Unpruned(input.tree, excludes)
          /\ (Returned /\ ret = "nil") =>
                 Range(HeaderNames(archive)) = Unpruned(input.tree, excludes)
    /\ op = "diff" =>
          \A s \in WalkedSources :
              /\ Range(s.in) \subseteq Unpruned(s.src.tree, excludes)
              /\ DiffCompleted => Range(s.in) = Unpruned(s.src.tree, excludes)

\* a Diff completed on a directory in which the exclude list matches a
\* directory but not the file beneath it
C23_Witness ==
    /\ DiffCompleted
    /\ cmpOld.kind = "dir"
    /\ \E n \in Pruned(cmpOld.tree, excludes) : ~Matched(n, excludes)
    /\ oldStream.in # <<>>

----------------------------------------------------------------------------
(* Producers after cancellation *)

\* the producer waits for room in its paths channel and the sorter, the
\* only receiver, has stopped
ProducerStuck ==
    /\ producer.pc = "send"
    /\ Len(pathsChan.buf) = MaxBuffer
    /\ sorter.pc \in {"stopped", "done"}

\* C27, as stated: after the context is cancelled the producer stops in the
\* end and closes its channels; it does not stay blocked on a send.
C27_ProducerStopsAfterCancel ==
    (op = "stream" /\ cancelled) ~> (producer.pc = "closed")

\* the context is cancelled, the sorter has stopped taking input and the
\* producer waits for room in the full channel
C27_Witness ==
    /\ op = "stream" /\ cancelled
    /\ ProducerStuck

----------------------------------------------------------------------------
(* The merged error channel of extsortStrings *)

\* the errors the producer and the sorter have sent so far
ErrorsSent == Range(errsChan.sent) \cup Range(sorterErrs.sent)

\* what the merged error channel carries in its lifetime: nothing it is
\* sent is received in this model, so it holds all that was forwarded
Forwarded == mergedErrs.sent

\* C24, the part on the errors forwarded: the merged channel is sent at most
\* one error in its lifetime, an error that the producer or the sorter
\* sent, and it is closed with none only if neither sent one.
C24_AtMostOneForwarded ==
    op = "stream" =>
        /\ Len(Forwarded) <= 1
        /\ Range(Forwarded) \subseteq ErrorsSent
        /\ (mergedErrs.closed /\ Forwarded = <<>>) =>
              (ErrorsSent = {} /\ errsChan.closed /\ sorterErrs.closed)
        /\ mergedErrs.closed <=> merger.pc = "done"

\* C24, as stated: the merged channel carries at most one error in its
\* lifetime and is closed in the end.
C24_OneErrorAndClosedInTheEnd ==
    /\ [](op = "stream" => Len(Forwarded) <= 1)
    /\ (op = "stream") ~> mergedErrs.closed

\* C24 for a stream whose receiver goes on receiving or whose context is
\* cancelled: the merged channel is closed in the end.
C24_ClosedUnlessAbandoned ==
    (op = "stream" /\ (consumer.receiving \/ cancelled))
        ~> (mergedErrs.closed \/ ~(consumer.receiving \/ cancelled))

\* the producer and the sorter have each sent an error and the merger has
\* forwarded one of them and returned
C24_BothFailedOneForwarded ==
    /\ op = "stream"
    /\ errsChan.sent # <<>> /\ sorterErrs.sent # <<>>
    /\ merger.pc = "done"
    /\ Len(Forwarded) = 1

\* the receiver has given up with the context not cancelled: the sorter
\* waits to hand over a record, the producer has closed its channels
\* without an error and the merger waits on the sorter's error channel
C24_Witness ==
    /\ op = "stream" /\ ~cancelled
    /\ ~consumer.receiving
    /\ sorter.pc = "merge" /\ sorter.out # <<>>
    /\ producer.pc = "closed" /\ errsChan.sent = <<>>
    /\ merger.pc = "select" /\ ~mergedErrs.closed


----------------------------------------------------------------------------
(* Records behind a producer's error *)

\* the producer has sent an error on its error channel
ProducerFailed == op = "stream" /\ errsChan.sent # <<>>

\* C25, as stated: once the producer's error channel has delivered an error,
\* the receiver of the sorted output has been handed no path, whatever the
\* producer had sent before the error.
C25_NoPathAfterProducerError ==
    ProducerFailed => consumer.got = <<>>

\* C25, the part that holds: a producer that fails before its first record
\* leaves nothing to hand over, and the one error forwarded is the
\* producer's unless the sorter's own came first.
C25_NoPathWhenNothingWasSent ==
    (ProducerFailed /\ pathsChan.sent = <<>>)
        => (consumer.got = <<>> /\ sorter.out = <<>>
            /\ Forwarded \in {<<>>, errsChan.sent, sorterErrs.sent})

\* the reader failed behind its last good header with the context not
\* cancelled: the sorter has handed every record to the receiver and closed,
\* and the merger has forwarded the reader's error
C25_Witness ==
    /\ ProducerFailed /\ ~cancelled
    /\ errsChan.sent = <<"tar">>
    /\ pathsChan.sent # <<>>
    /\ sorter.pc = "done"
    /\ consumer.got = SortChunk(pathsChan.sent)
    /\ Forwarded = <<"tar">>


----------------------------------------------------------------------------
(* Diff and the errors of its streams *)

\* a stream of the Diff carries an error of its producer
DiffUpstreamFailed ==
    op = "diff" /\ {oldStream.err, newStream.err} # {"none"}

\* C26: a Diff that returns with an error on the error channel of either of
\* its streams returns an error that is neither nil nor ErrDiffsFound, with
\* no result and no output file, whatever it had received and reported
\* before the error.
C26_UpstreamErrorFailsDiff ==
    (DiffDone /\ DiffUpstreamFailed)
        => (/\ ret \notin {"nil", "ErrDiffsFound", "pending"}
            /\ result = NoResult
            /\ ~outExists)

\* the reader of the new side failed behind a good header with the context
\* not cancelled, and the Diff returned that error after it had reported an
\* event from what it had received
C26_Witness ==
    /\ DiffDone /\ ~cancelled
    /\ oldStream.err = "none"
    /\ newStream.err = "tar" /\ newStream.in # <<>>
    /\ stdout # <<>>
    /\ ret = "tar"


----------------------------------------------------------------------------
(* The exit after a termination signal *)

\* main has taken a termination signal and called cancel()
SignalHandled == cancelled

\* C28: once main has taken SIGINT or SIGTERM and cancelled the context, the
\* process exits in the end, whether the command returns or not, and a
\* process that has exited after the signal was taken has exited with code
\* 2, never with 0 or 1.
C28_SignalEndsInExitFailure ==
    /\ [](SignalHandled /\ exited => exitCode = exitCodeFailure)
    /\ SignalHandled ~> exited

\* the timer fired on a command that had not returned: the process has
\* exited with code 2 with the command still at work
C28_Witness ==
    /\ SignalHandled /\ exited
    /\ pc = "killed" /\ ret = "pending"
    /\ exitCode = exitCodeFailure

\* the signal was taken with the command's nil error waiting on errChan,
\* and the process has exited with code 2
C28_SignalAfterSuccess ==
    /\ SignalHandled /\ exited
    /\ cancelAt = "returned" /\ ret = "nil"
    /\ exitCode = exitCodeFailure


----------------------------------------------------------------------------
(* Order of the delta events *)

\* the paths of the events reported so far, in the order of their lines
EventPaths == [i \in DOMAIN stdout |-> LineItem(EventLine(i))]

\* the callback's line and entry for the event a line stands for
EventOf(line) ==
    deltaCallback(IF LineMark(line) = OldMark THEN "OLD" ELSE "NEW",
                  LineItem(line))

\* the callback printed the line of an event and failed to write its entry
EntryFailed == Len(stdout) = Len(archive) + 1 /\ ret = "write"

\* C29: in every state of a Diff the paths of the events reported so far
\* are in non-decreasing byte order, removals and additions interleaved;
\* the k-th line and the k-th entry are the line and the entry of one event;
\* and there is never an entry without its line: the lines are as many as
\* the entries, or one more when the entry of the last line failed to be
\* written and Diff returned on it.
C29_EventsInPathOrderLineFirst ==
    op = "diff" =>
        /\ NonDecreasing(EventPaths)
        /\ Len(stdout) = Len(archive) \/ EntryFailed
        /\ \A k \in DOMAIN archive :
              /\ LineMark(EventLine(k)) \in {OldMark, NewMark}
              /\ EventLine(k) = EventOf(EventLine(k)).line
              /\ EventEntry(k) = EventOf(EventLine(k)).hdr

\* C29, step by step: a step of Diff handles at most one event; it leaves
\* the lines and entries of the earlier events as they are and adds one
\* line, and the entry of that line or none.
C29_OneEventAtATime ==
    [][op = "diff" =>
          /\ Len(stdout') <= Len(stdout) + 1
          /\ SubSeq(stdout', 1, Len(stdout)) = stdout
          /\ SubSeq(archive', 1, Len(archive)) = archive
          /\ Len(archive') > Len(archive)
                => /\ Len(archive') = Len(archive) + 1
                   /\ Len(stdout') = Len(stdout) + 1
                   /\ Len(stdout') = Len(archive')]_vars

\* a Diff has reported an addition and then a removal of a greater path
\* and returned ErrDiffsFound
C29_Witness ==
    /\ DiffDone /\ ret = "ErrDiffsFound"
    /\ Len(archive) = 2 /\ Len(stdout) = 2
    /\ LineMark(EventLine(1)) = NewMark
    /\ LineMark(EventLine(2)) = OldMark
    /\ EventPaths[1] # EventPaths[2]


----------------------------------------------------------------------------
(* Diff and the order of its inputs *)

\* a sorted sequence with each record once
RECURSIVE Distinct(_)
Distinct(s) ==
    IF Len(s) <= 1 THEN s
    ELSE IF s[1] = s[2] THEN Distinct(Tail(s))
    ELSE <<s[1]>> \o Distinct(Tail(s))

\* the set of paths of a source in byte order, and its records in byte
\* order with their repetitions
SortedSet(s) == Distinct(SortChunk(s))
SortedBag(s) == SortChunk(s)

\* the lines of a sequence of events
EventLines(events) ==
    [i \in DOMAIN events |->
        deltaCallback(events[i].delta, events[i].item).line]

\* C30, as stated: the set of events and the counts of a Diff that
\* completes depend only on the set of paths of each source, so they are
\* those of the merge of the two sets of paths, in whatever order and
\* however often the sources yielded them.
C30_OutcomeOfPathSets ==
    DiffCompleted =>
        LET ev == DiffEvents(SortedSet(OldPaths), SortedSet(NewPaths))
        IN /\ Printed(OldMark) = EventItems(ev, "OLD")
           /\ Printed(NewMark) = EventItems(ev, "NEW")
           /\ result.ExtraA = EventCount(ev, "OLD")
           /\ result.ExtraB = EventCount(ev, "NEW")

\* C30, amended: the events of a Diff that completes, in their order, and
\* its counts depend only on the records of each source with the number of
\* times each was yielded, not on the order in which they were yielded; for
\* two sources that yield no path twice they depend only on the two sets of
\* paths.
C30_OutcomeOfPathBags ==
    DiffCompleted =>
        LET ev == DiffEvents(SortedBag(OldPaths), SortedBag(NewPaths))
        IN /\ stdout = EventLines(ev)
           /\ result.ExtraA = EventCount(ev, "OLD")
           /\ result.ExtraB = EventCount(ev, "NEW")
           /\ (NoRepeat(OldPaths) /\ NoRepeat(NewPaths))
                 => C30_OutcomeOfPathSets

\* a Diff completed with events on an old side that yielded two different
\* paths, the greater first
C30_Witness ==
    /\ DiffCompleted
    /\ Len(OldPaths) = 2 /\ StrLess(OldPaths[2], OldPaths[1])
    /\ result.ExtraA > 0


----------------------------------------------------------------------------
(* Sorting what is sorted *)

\* C31: a List with sort = true that returns nil on an archive whose header
\* names are in non-decreasing byte order has printed the names in the
\* order of the archive, each as often as the archive holds it: the lines a
\* List with sort = false prints for it, whatever the chunk size and the
\* order in which the workers register their runs.
C31_SortedListIdempotent ==
    (ListCompleted /\ sort /\ NonDecreasing(input.names))
        => (stdout = input.names /\ paths.in = input.names)

\* a sorted List has printed an archive of two different names in byte
\* order that the sorter took in two chunks
C31_Witness ==
    /\ ListCompleted /\ sort
    /\ Len(input.names) = 2
    /\ StrLess(input.names[1], input.names[2])
    /\ Len(Chunks(paths.in, extSortConfig.chunk)) = 2
    /\ stdout = input.names


----------------------------------------------------------------------------
(* Directories in a sorted stream *)

\* the sorted streams of which this state holds every record: the old
\* stream of a Diff that has not opened its new stream yet, and the stream
\* of a sorted List that has printed nothing yet
WholeSortedStreams ==
    (IF op = "diff" /\ pc = "openNew" THEN {oldStream.out} ELSE {})
        \cup (IF op = "list" /\ sort /\ pc = "print" /\ stdout = <<>>
              THEN {paths.out} ELSE {})

\* p is a path beneath the directory record d
Under(d, p) == HasSuffixSlash(d) /\ IsPrefix(d, p) /\ p # d

\* p continues the name of the directory record d with a byte below "/"
ContinuesBelowSlash(d, p) ==
    /\ HasSuffixSlash(d)
    /\ Len(p) >= Len(d)
    /\ SubSeq(p, 1, Len(d) - 1) = TrimSuffixSlash(d)
    /\ p[Len(d)] \in {" ", "*", "+", "-", "."}

\* C32: in a sorted stream a directory record d/ is before every record
\* beneath it, with nothing but records beneath d/ (or d/ again) between
\* them; a record that continues d with a byte below "/" is before d/; and
\* the stream is in non-decreasing byte order.
C32_DirectoryBeforeItsChildren ==
    \A s \in WholeSortedStreams :
        /\ NonDecreasing(s)
        /\ \A i, j \in DOMAIN s :
              /\ Under(s[i], s[j])
                    => /\ i < j
                       /\ \A k \in i..j : IsPrefix(s[i], s[k])
              /\ ContinuesBelowSlash(s[j], s[i]) => i < j

\* the sorted stream of a tree holds b.t, b/ and b/c in this order, from a
\* walker that sent b/ and b/c before b.t
C32_Witness ==
    /\ op = "diff" /\ pc = "openNew"
    /\ oldStream.out = <<sBT, sBdir, sBC>>
    /\ oldStream.in = <<sBdir, sBC, sBT>>


----------------------------------------------------------------------------
(* The producer of a path stream *)

\* the producer goroutine has returned
ProducerReturned == producer.pc = "closed"

\* what holds of a producer and its two channels in every state
ProducerProtocol ==
    op = "stream" =>
        /\ Len(errsChan.sent) <= 1
        /\ errsChan.sent # <<>> => ProducerReturned
        /\ ProducerReturned <=> pathsChan.closed
        /\ ProducerReturned <=> errsChan.closed
        /\ Range(errsChan.sent) \cap {"open", "gzip"} # {}
              => pathsChan.sent = <<>>

\* C33: a producer sends at most one error; it sends the error as it
\* returns, so no path after it; it has closed its path channel and its
\* error channel whenever it has returned, whether at the end of its input,
\* on an open, gzip, tar or walk failure, on a malformed pattern or on
\* cancellation; nothing is sent on a channel after it was closed; and a
\* producer that failed to open its input or to set up gzip has sent no
\* path.
C33_ProducerProtocol ==
    /\ []ProducerProtocol
    /\ [][/\ errsChan.sent # <<>> => pathsChan'.sent = pathsChan.sent
          /\ pathsChan.closed => pathsChan'.sent = pathsChan.sent
          /\ errsChan.closed => errsChan'.sent = errsChan.sent
          /\ pathsChan.closed => pathsChan'.closed
          /\ errsChan.closed => errsChan'.closed]_vars

\* a producer has sent a path, then failed on the next header, sent that
\* one error and returned with both channels closed, the context not
\* cancelled
C33_Witness ==
    /\ op = "stream" /\ ~cancelled
    /\ ProducerReturned
    /\ pathsChan.sent # <<>>
    /\ errsChan.sent = <<"tar">>
    /\ pathsChan.closed /\ errsChan.closed

\* a producer has returned on a malformed pattern, and one on a failure to
\* open its input
C33_PatternFailure ==
    op = "stream" /\ ProducerReturned /\ errsChan.sent = <<"pattern">>
C33_OpenFailure ==
    op = "stream" /\ ProducerReturned /\ errsChan.sent = <<"open">>


----------------------------------------------------------------------------
(* Sources resolved by Stat *)

\* the stream is one the producer of the source's kind can have fed: the
\* walker for a directory, the tar reader for anything else
FedBy(src, stream) ==
    \E fault \in Faults(src) : \E canc \in BOOLEAN :
        LET p == IF src.kind = "dir"
                 THEN fsProducer(src, excludes, canc, fault)
                 ELSE tarProducer(src, excludes, canc, fault)
        IN stream.in = p.in /\ stream.err = p.err

\* Diff is past its first / its second call of multiPathStream
PastOpenOld == op = "diff" /\ (pc \in {"openNew", "merge"} \/ newStream # NoStream)
PastOpenNew == op = "diff" /\ (pc = "merge" \/ newStream # NoStream)

----------------------------------------------------------------------------
(* Order of the patterns *)

\* the lists that hold the patterns of excl in another order
Reorderings(excl) ==
    {[i \in DOMAIN excl |-> excl[f[i]]] : f \in Permutations(DOMAIN excl)}

\* what isExcluded has returned, as one of "true", "false" and "error"
Outcome ==
    IF returned.err # "nil" THEN "error"
    ELSE IF returned.value THEN "true" ELSE "false"

\* C35, as stated: what isExcluded returns for a path, an isDir flag and a
\* pattern list is what it returns for every reordering of the list.
C35_SameForEveryOrder ==
    ExcludedCalled =>
        \A excl \in Reorderings(call.excludes) :
            isExcluded(call.path, call.isDir, excl) = Outcome

\* C35, the part that holds: for a list without a malformed pattern the
\* order of the patterns makes no difference.
C35_SameForEveryOrderOfWellFormed ==
    (ExcludedCalled /\ \A i \in DOMAIN call.excludes :
                          ~Malformed(call.excludes[i]))
        => \A excl \in Reorderings(call.excludes) :
               isExcluded(call.path, call.isDir, excl) = Outcome

\* isExcluded has returned true on a list whose first pattern matches and
\* whose second is malformed, and returns an error on the list reversed
C35_Witness ==
    /\ ExcludedCalled
    /\ Len(call.excludes) = 2
    /\ Malformed(call.excludes[2])
    /\ Outcome = "true"
    /\ isExcluded(call.path, call.isDir,
                  <<call.excludes[2], call.excludes[1]>>) = "error"


----------------------------------------------------------------------------
(* List to its end *)

\* List has returned from its two loops
ListReturned == op = "list" /\ pc = "done"

\* the path channel List was handed is closed and empty
ListPathsDrained ==
    IF sort THEN sorter.pc \in {"done", "stopped"}
    ELSE pathsChan.closed /\ pathsChan.buf = <<>>

C36_UnsortedFailure ==
    /\ ListReturned /\ ~sort /\ ~cancelled
    /\ stdout # <<>>
    /\ ret = "tar"


----------------------------------------------------------------------------
(* The output file from creation to removal *)

\* the calls of a given name made so far, as positions in the log
CallsOf(fn) == {i \in DOMAIN calls : calls[i].fn = fn}

\* the operation's first call, fs.Create on the output, failed
CreateFailed ==
    /\ op \in {"create", "diff"}
    /\ calls # <<>> /\ calls[1] = Called("fs.Create", FALSE)

----------------------------------------------------------------------------
(* The order of release *)

\* the tar writer was set up: the walk or the first stream was started
WritersSetUp == CallsOf("WalkDir") \cup CallsOf("multiPathStream") # {}

\* the names of the last n calls
LastCalls(n) ==
    [i \in 1..n |-> calls[Len(calls) - n + i].fn]

\* the calls that write to the output file
WritesToOutput ==
    CallsOf("tw.WriteHeader") \cup CallsOf("tw.Close") \cup CallsOf("gw.Close")

\* C38: a Create or Diff that has returned after its writers were set up
\* has closed the tar writer, then the gzip writer, then the output file,
\* and then removed the output unless it completed, and these were its last
\* calls; in every state a Remove of the output comes after the Close of
\* every writer that was opened and of the file, and is the last call:
\* nothing is written after it.
C38_ReleasedInOrder ==
    op \in {"create", "diff"} =>
        /\ (pc = "done" /\ WritersSetUp)
              => IF keepOutput
                 THEN /\ Len(calls) >= 3
                      /\ LastCalls(3) = <<"tw.Close", "gw.Close", "out.Close">>
                      /\ CallsOf("fs.Remove") = {}
                 ELSE /\ Len(calls) >= 4
                      /\ LastCalls(4) =
                            <<"tw.Close", "gw.Close", "out.Close", "fs.Remove">>
        /\ \A fn \in {"tw.Close", "gw.Close", "out.Close", "fs.Remove"} :
               Cardinality(CallsOf(fn)) <= 1
        /\ \A r \in CallsOf("fs.Remove") :
               /\ r = Len(calls)
               /\ \E c \in CallsOf("out.Close") : c < r
               /\ \A w \in WritesToOutput : w < r
               /\ WritersSetUp
                     => /\ \E c \in CallsOf("tw.Close") : c < r
                        /\ \E c \in CallsOf("gw.Close") : c < r
        /\ \A t \in CallsOf("tw.Close"), g \in CallsOf("gw.Close") : t < g
        /\ \A g \in CallsOf("gw.Close"), o \in CallsOf("out.Close") : g < o

\* an operation that wrote a header and then failed has returned with the
\* three closes and the removal as its last calls
C38_Witness ==
    /\ op \in {"create", "diff"}
    /\ pc = "done" /\ WritersSetUp
    /\ HeadersWritten > 0
    /\ ret \notin {"nil", "ErrDiffsFound"}
    /\ LastCalls(4) = <<"tw.Close", "gw.Close", "out.Close", "fs.Remove">>
    /\ ~outExists


----------------------------------------------------------------------------
(* Errors of the closing calls *)

\* a Close of the tar writer, the gzip writer or the output file failed
CloseFailed ==
    \E i \in DOMAIN calls :
        calls[i].fn \in {"tw.Close", "gw.Close", "out.Close"} /\ ~calls[i].ok

\* C39, as stated: a Create that has returned nil, and a Diff that has
\* returned ErrDiffsFound, made every call on its output without an error,
\* the writing of the headers and the three closes; and an operation one
\* of whose closes failed has returned an error and removed the output.
C39_KeptOnlyIfAllWritten ==
    (op \in {"create", "diff"} /\ pc = "done") =>
        /\ keepOutput => \A i \in DOMAIN calls : calls[i].ok
        /\ CloseFailed => (~keepOutput /\ ret # "nil" /\ ~outExists)

\* C39, the part that holds: a Create that has returned nil, and a Diff
\* that has returned ErrDiffsFound, wrote every header without an error.
C39_KeptOnlyIfHeadersWritten ==
    (op \in {"create", "diff"} /\ pc = "done" /\ keepOutput) =>
        \A i \in DOMAIN calls : calls[i].fn = "tw.WriteHeader" => calls[i].ok

\* a Create has returned nil and kept its output although the Close of the
\* gzip writer, which flushes the compressed data, failed
C39_Witness ==
    /\ op = "create" /\ pc = "done"
    /\ ret = "nil" /\ outExists
    /\ \E i \in CallsOf("gw.Close") : ~calls[i].ok
    /\ CallsOf("fs.Remove") = {}


----------------------------------------------------------------------------
(* The benchmark helper mktree (tools/mktree/mktree.go) *)

\* the number of worker goroutines (runtime.GOMAXPROCS(0) * 2 in the source)
workers == 2

\* the files of one directory (100 in the source)
filesPerDir == 2

\* the largest totalFiles tried
MaxTotalFiles == 7

Workers == 1..workers

\* totalFiles of the running createDummyTree
totalFiles == call.totalFiles

\* dirsNeeded := (totalFiles + filesPerDir - 1) / filesPerDir
dirsNeeded == (totalFiles + filesPerDir - 1) \div filesPerDir

\* a worker at the head of its loop over tasks
WorkerAt(p, d, f, e) == [pc |-> p, d |-> d, f |-> f, err |-> e]

\* createDummyTree has made its channels and started its goroutines
InitTree ==
    /\ op = "mktree"
    /\ pc = "wait"
    /\ cancelled = FALSE
    /\ excludes = <<>>
    /\ extSortConfig = extSortConfigDefault
    /\ gzipConfig = NoGzipConfig
    /\ input = NoSource /\ cmpOld = NoSource /\ cmpNew = NoSource
    /\ sort = FALSE
    /\ outExists = FALSE
    /\ archive = <<>>
    /\ stdout = <<>>
    /\ walk = <<>>
    /\ origin = NoOrigin
    /\ paths = NoStream
    /\ oldStream = NoStream
    /\ newStream = NoStream
    /\ result = NoResult
    /\ ret = "pending"
    /\ cancelAt = "none"
    /\ exited = FALSE
    /\ exitCode = 0
    /\ tmpFiles = NoTempFiles
    /\ \E n \in 0..MaxTotalFiles :
           call = [fn |-> "createDummyTree", totalFiles |-> n]
    /\ returned = NoReturn
    /\ NoPipe
    /\ NoWriter
    /\ tasks = [buf |-> <<>>, closed |-> FALSE]
    /\ errCh = <<>>
    /\ once = FALSE
    /\ worker = [w \in Workers |-> WorkerAt("range", 0, 0, "nil")]
    /\ feeder = [pc |-> "loop", d |-> 0]
    /\ made = [dirs |-> {}, files |-> {}]

\* what the goroutines of createDummyTree leave alone
treeFrame ==
    <<op, excludes, extSortConfig, input, cmpOld, cmpNew, sort, outExists,
      archive, stdout, walk, origin, paths, oldStream, newStream, result,
      gzipConfig, cancelAt, exited, exitCode, tmpFiles, call, returned,
      pipeVars, writerVars>>

\* for d := range tasks: the next task, or the end of the closed channel
WorkerRange(w) ==
    /\ worker[w].pc = "range"
    /\ IF tasks.buf # <<>>
       THEN /\ worker' = [worker EXCEPT ![w] =
                              WorkerAt("mkdir", Head(tasks.buf), 0, "nil")]
            /\ tasks' = [tasks EXCEPT !.buf = Tail(tasks.buf)]
       ELSE /\ tasks.closed
            /\ worker' = [worker EXCEPT ![w].pc = "done"]
            /\ UNCHANGED tasks
    /\ UNCHANGED <<errCh, once, feeder, made, pc, ret, cancelled>>
    /\ UNCHANGED treeFrame

\* createDirAndFiles: fs.MkdirAll(subdir, 0o755)
WorkerMkdirAll(w) ==
    /\ worker[w].pc = "mkdir"
    /\ \/ /\ worker' = [worker EXCEPT ![w].pc = "once", ![w].err = "creating dir"]
          /\ UNCHANGED made
       \/ /\ worker' = [worker EXCEPT ![w].pc = "file"]
          /\ made' = [made EXCEPT !.dirs = @ \cup {worker[w].d}]
    /\ UNCHANGED <<tasks, errCh, once, feeder, pc, ret, cancelled>>
    /\ UNCHANGED treeFrame

\* createDirAndFiles: one round of the loop over the files of the directory
WorkerFile(w) ==
    /\ worker[w].pc = "file"
    /\ LET index == worker[w].d * filesPerDir + worker[w].f
       IN  IF worker[w].f = filesPerDir
           THEN /\ worker' = [worker EXCEPT ![w].pc = "range"]
                /\ UNCHANGED made
           ELSE IF cancelled
           THEN /\ worker' = [worker EXCEPT ![w].pc = "once",
                                            ![w].err = "during creation"]
                /\ UNCHANGED made
           ELSE IF index >= totalFiles
           THEN /\ worker' = [worker EXCEPT ![w].pc = "range"]
                /\ UNCHANGED made
           ELSE \/ /\ worker' = [worker EXCEPT ![w].pc = "once",
                                               ![w].err = "creating file"]
                   /\ UNCHANGED made
                \/ /\ worker' = [worker EXCEPT ![w].f = @ + 1]
                   /\ made' = [made EXCEPT !.files = @ \cup {index}]
    /\ UNCHANGED <<tasks, errCh, once, feeder, pc, ret, cancelled>>
    /\ UNCHANGED treeFrame

\* a variant without the Once: every failing worker sends its error
WorkerOnce_everyWorker(w) ==
    /\ worker[w].pc = "once"
    /\ Len(errCh) < 1
    /\ errCh' = Append(errCh, worker[w].err)
    /\ cancelled' = TRUE
    /\ once' = TRUE
    /\ worker' = [worker EXCEPT ![w].pc = "done"]
    /\ UNCHANGED <<tasks, feeder, made, pc, ret>>
    /\ UNCHANGED treeFrame

\* once.Do(func() { errCh <- err; cancel() }); return
WorkerOnce(w) ==
    /\ worker[w].pc = "once"
    /\ IF once
       THEN UNCHANGED <<errCh, cancelled, once>>
       ELSE /\ Len(errCh) < 1
            /\ errCh' = Append(errCh, worker[w].err)
            /\ cancelled' = TRUE
            /\ once' = TRUE
    /\ worker' = [worker EXCEPT ![w].pc = "done"]
    /\ UNCHANGED <<tasks, feeder, made, pc, ret>>
    /\ UNCHANGED treeFrame

WorkerStep(w) ==
    WorkerRange(w) \/ WorkerMkdirAll(w) \/ WorkerFile(w) \/ WorkerOnce(w)

\* the feeder's select: case tasks <- d
FeederSend ==
    /\ feeder.pc = "loop"
    /\ feeder.d < dirsNeeded
    /\ Len(tasks.buf) < workers
    /\ tasks' = [tasks EXCEPT !.buf = Append(@, feeder.d)]
    /\ feeder' = [feeder EXCEPT !.d = @ + 1]
    /\ UNCHANGED <<errCh, once, worker, made, pc, ret, cancelled>>
    /\ UNCHANGED treeFrame

\* the feeder's select: case <-ctx.Done(): return, and the deferred close
FeederCancelled ==
    /\ feeder.pc = "loop"
    /\ feeder.d < dirsNeeded
    /\ cancelled
    /\ tasks' = [tasks EXCEPT !.closed = TRUE]
    /\ feeder' = [feeder EXCEPT !.pc = "done"]
    /\ UNCHANGED <<errCh, once, worker, made, pc, ret, cancelled>>
    /\ UNCHANGED treeFrame

\* the feeder's loop has ended: the deferred close(tasks)
FeederEnds ==
    /\ feeder.pc = "loop"
    /\ feeder.d = dirsNeeded
    /\ tasks' = [tasks EXCEPT !.closed = TRUE]
    /\ feeder' = [feeder EXCEPT !.pc = "done"]
    /\ UNCHANGED <<errCh, once, worker, made, pc, ret, cancelled>>
    /\ UNCHANGED treeFrame

FeederStep == FeederSend \/ FeederCancelled \/ FeederEnds

\* wg.Wait(); close(errCh); the error received, ctx.Err() or nil; and the
\* deferred cancel()
TreeReturns ==
    /\ op = "mktree"
    /\ pc = "wait"
    /\ \A w \in Workers : worker[w].pc = "done"
    /\ ret' = IF errCh # <<>> THEN Head(errCh)
              ELSE IF cancelled THEN "during creation"
              ELSE "nil"
    /\ errCh' = <<>>
    /\ cancelled' = TRUE
    /\ pc' = "done"
    /\ UNCHANGED <<tasks, once, worker, feeder, made>>
    /\ UNCHANGED treeFrame

TreeNext ==
    \/ \E w \in Workers : WorkerStep(w)
    \/ FeederStep
    \/ TreeReturns
    \/ Cancel

\* every goroutine that can take a step takes one in the end
TreeSpec ==
    /\ InitTree
    /\ [][TreeNext]_vars
    /\ \A w \in Workers : WF_vars(WorkerStep(w))
    /\ WF_vars(FeederStep)
    /\ WF_vars(TreeReturns)


\* every goroutine of createDummyTree has ended and the function has returned
TreeFinished ==
    /\ pc = "done"
    /\ \A w \in Workers : worker[w].pc = "done"
    /\ feeder.pc = "done"
    /\ tasks.closed

\* a worker failed to create a directory or a file
WorkerFailed ==
    \E w \in Workers : worker[w].err \in {"creating dir", "creating file"}

\* the errors of creating a directory or a file that workers hold
FailuresHeld ==
    {worker[w].err : w \in {v \in Workers :
                               worker[v].err \in {"creating dir", "creating file"}}}

TreeErrorRecorded ==
    /\ Len(errCh) <= 1
    /\ once => cancelled
    /\ (errCh # <<>>) => once
    /\ (pc = "wait" /\ once) => Len(errCh) = 1
    /\ feeder.pc = "done" => tasks.closed
    /\ tasks.closed => feeder.pc = "done"
    /\ (pc = "done" /\ once) => ret # "nil"
    /\ (pc = "done" /\ WorkerFailed /\ cancelAt = "none") => ret \in FailuresHeld
    /\ pc = "done" => \A w \in Workers : worker[w].pc = "done"

\* the first error stays the one on the channel, it is what the function
\* returns, and nothing is submitted once the task channel is closed
TreeErrorKept ==
    /\ (errCh # <<>> /\ pc' = "wait") => errCh' = errCh
    /\ (errCh # <<>> /\ pc = "wait" /\ pc' = "done") => ret' = Head(errCh)
    /\ (~once /\ once') => (errCh = <<>> /\ Len(errCh') = 1 /\ cancelled')
    /\ tasks.closed => (tasks'.closed /\ Len(tasks'.buf) <= Len(tasks.buf))
    /\ feeder.pc = "done" => feeder' = feeder

\* without a failure and without a cancellation the function returns nil,
\* and a function that returned nil made every directory and totalFiles files
TreeComplete ==
    /\ (pc = "done" /\ ~once /\ cancelAt = "none") => ret = "nil"
    /\ (pc = "done" /\ ret = "nil")
          => /\ made.files = 0..(totalFiles - 1)
             /\ Cardinality(made.files) = totalFiles
             /\ made.dirs = 0..(dirsNeeded - 1)
    /\ Cardinality(made.files) <= totalFiles

\* C40: createDummyTree always terminates: the function returns, every
\* worker and the feeder end and the task channel is closed, whatever fails
\* and whenever the context is cancelled; one error at most is recorded, by
\* the first worker that reports one, with the context cancelled, and it is
\* the error returned; after the close nothing is submitted; and without
\* failures exactly totalFiles files are created.
C40_TreeTerminates ==
    /\ <>TreeFinished
    /\ []TreeErrorRecorded
    /\ [][TreeErrorKept]_vars
    /\ []TreeComplete

\* two workers failed, on a directory and on a file; the error of one was
\* recorded and returned, the feeder stopped before the last directory and
\* everything has ended
C40_Witness ==
    /\ TreeFinished
    /\ once
    /\ FailuresHeld = {"creating dir", "creating file"}
    /\ ret \in FailuresHeld
    /\ feeder.d < dirsNeeded
    /\ cancelAt = "none"

\* a run without failures has ended with totalFiles files in four directories
C40_CompleteTree ==
    /\ TreeFinished
    /\ ret = "nil"
    /\ totalFiles = MaxTotalFiles
    /\ Cardinality(made.files) = MaxTotalFiles
    /\ Cardinality(made.dirs) = 4

\* directories were submitted that no worker took: every worker has ended
\* on an error while the channel still holds tasks
C40_TasksLeftBehind ==
    /\ pc = "done"
    /\ tasks.buf # <<>>
    /\ \A w \in Workers : worker[w].pc = "done" /\ worker[w].err # "nil"
====
